---------------------------- MODULE Spec2Model ----------------------------
(***************************************************************************)
(* anksidian: synchronising cloze notes of Markdown files with Anki.       *)
(* Model of src/src/handle_md.rs (grammar, fold, reconciler, splice) and   *)
(* of the NOTES snapshot and handle_unseen_notes of src/src/anki.rs.       *)
(*                                                                         *)
(* Text is a sequence of one-character strings.  A position i is the       *)
(* 1-based index of the next character to read, so the byte offset of the  *)
(* Rust code is i - 1.  A parser returns the position after its match, or  *)
(* 0 when it does not match.                                               *)
(***************************************************************************)
EXTENDS Integers, Sequences, FiniteSets

VARIABLES
    fs,              \* the Markdown files on disk, by file number
    NOTES,           \* anki.rs NOTES: sequence of [id, text, seen]
    overflow_checks, \* build profile: TRUE panics on u64 overflow, FALSE wraps
    deck_mapped,     \* whether CONFIG.path_to_deck has a mapping for the file
    pc,              \* position of handle_md for each file
    str,             \* handle_md: the text read from the file
    tags,            \* handle_md: tags collected by the fold
    clozes,          \* handle_md: the ClozeData collected by the fold
    idx,             \* handle_md: number of clozes already reconciled
    last_read,       \* handle_md: last_read
    out_string,      \* handle_md: out_string
    calls,           \* log of the store calls (update_cloze_note / add_cloze_note)
    matches,         \* log of the NOTES lookups: what each pending note matched
    upc,             \* position of handle_unseen_notes
    uidx,            \* handle_unseen_notes: index of the note being looked at
    offered,         \* ids printed with the delete prompt
    deleted,         \* ids of the DeleteNotes requests that were sent
    run,             \* 1: first run, 2: the run repeated on the written files
    buf,             \* handle_unseen_notes: the line read from stdin, trimmed
    delete_ret,      \* handle_unseen_notes: what the DeleteNotes request of this turn returned
    scan,            \* main.rs handle_md: the locals of its character-scan loop
    first_run,       \* what the first run left: its files and whether a call failed
    headings,        \* heading stack driven directly by handle_heading
    applied,         \* the headings applied to that stack, in order
    math_in,         \* convert_math on its own: the Math and what typst and pandoc do
    math_out,        \* convert_math on its own: the strings returned
    call,            \* anki.rs on its own: the function called and its pictures
    cpc,             \* position of that function: the request it is in
    stored,          \* update_cloze_note: pictures stored so far
    req_i,           \* Request::request: i
    attempts,        \* Request::request: times request() was called
    slept,           \* Request::request: the timeouts slept, in ms
    sent,            \* every body posted to AnkiConnect, by action, in order
    response,        \* Request::request: the response the loop broke with
    req_ret,         \* Request::request: what it returned to the function
    ret              \* what the function returned

vars == <<fs, NOTES, overflow_checks, deck_mapped, pc, str, tags, clozes, idx,
          last_read, out_string, calls, matches, upc, uidx, offered, deleted,
          run, first_run, buf, delete_ret, headings, applied, math_in, math_out, call, cpc, stored,
          req_i, attempts, slept, sent, response, req_ret, ret, scan>>

\* the variables of convert_math and of anki.rs run on their own
math_vars == <<math_in, math_out>>

request_vars ==
    <<call, cpc, stored, req_i, attempts, slept, sent, response, req_ret, ret>>

---------------------------------------------------------------------------
(* Text helpers *)

\* Option: None is the empty sequence, Some(x) the sequence holding x
None == <<>>

Some(x) == <<x>>

\* convert_math is not running on its own
MathIdle == math_in = None /\ math_out = None

\* handle_unseen_notes has read no line, and the scan of main.rs is not running
UnseenIdle == buf = "" /\ delete_ret = None /\ scan = None

\* no function of anki.rs is running on its own
RequestIdle ==
    /\ call = None /\ cpc = "idle" /\ stored = 0 /\ req_i = 0 /\ attempts = 0
    /\ slept = <<>> /\ sent = <<>> /\ response = None /\ req_ret = None /\ ret = None

\* the backtick character (a TLA+ string cannot hold one)
BT == "BACKTICK"

StartsWith(s, i, lit) ==
    /\ i >= 1
    /\ i + Len(lit) - 1 <= Len(s)
    /\ SubSeq(s, i, i + Len(lit) - 1) = lit

\* str[a..b] of Rust with 0-based byte offsets a <= b
Slice(s, a, b) == SubSeq(s, a + 1, b)

\* first position j >= i where stop(j) holds, or Len(s) + 1; 0 from 0
FirstStop(s, i, stop(_)) ==
    IF i = 0 THEN 0
    ELSE CHOOSE j \in i..(Len(s) + 1) :
             /\ (j = Len(s) + 1 \/ stop(j))
             /\ \A k \in i..(j - 1) : ~stop(k)

RECURSIVE Concat(_)
Concat(ss) == IF ss = <<>> THEN <<>> ELSE Head(ss) \o Concat(Tail(ss))

Digits == <<"0", "1", "2", "3", "4", "5", "6", "7", "8", "9">>

IsDigit(c) == \E k \in 1..10 : Digits[k] = c

DigitVal(c) == (CHOOSE k \in 1..10 : Digits[k] = c) - 1

---------------------------------------------------------------------------
(* u64 arithmetic.  A u64 is <<a, b, c>> standing for a*10^14 + b*10^7 + c *)
(* with b, c < 10^7.                                                       *)

Limb == 10 ^ 7

\* 2^64 = 18446744073709551616
TwoTo64 == <<184467, 4407370, 9551616>>

U64(n) == <<0, n \div Limb, n % Limb>>

GE(x, y) ==
    \/ x[1] > y[1]
    \/ x[1] = y[1] /\ x[2] > y[2]
    \/ x[1] = y[1] /\ x[2] = y[2] /\ x[3] >= y[3]

\* x - y for x >= y
Minus(x, y) ==
    LET c  == x[3] - y[3]
        bc == IF c < 0 THEN 1 ELSE 0
        b  == x[2] - y[2] - bc
        bb == IF b < 0 THEN 1 ELSE 0
    IN  <<x[1] - y[1] - bb, b + bb * Limb, c + bc * Limb>>

\* acc * 10 + digit, not reduced
MulAdd(acc, d) ==
    LET c == acc[3] * 10 + d
        b == acc[2] * 10 + (c \div Limb)
    IN  <<acc[1] * 10 + (b \div Limb), b % Limb, c % Limb>>

RECURSIVE Wrap(_)
Wrap(x) == IF GE(x, TwoTo64) THEN Wrap(Minus(x, TwoTo64)) ELSE x

\* the fold of handle_cloze_lines over the digit run: acc is
\* [val |-> the u64, overflow |-> whether a step overflowed].  With overflow checks
\* the first overflow panics and the fold goes no further; without, the value wraps.
RECURSIVE FoldDigits(_, _, _)
FoldDigitsStep(rest, x, overflowed, checks) ==
    FoldDigits(rest, [val |-> Wrap(x), overflow |-> overflowed \/ GE(x, TwoTo64)], checks)

FoldDigits(run_, acc, checks) ==
    IF run_ = <<>> \/ (acc.overflow /\ checks) THEN acc
    ELSE FoldDigitsStep(Tail(run_), MulAdd(acc.val, DigitVal(Head(run_))), acc.overflow,
                        checks)

DecodeId(run_, checks) ==
    FoldDigits(run_, [val |-> <<0, 0, 0>>, overflow |-> FALSE], checks)

Pad7(n) == [i \in 1..7 |-> Digits[((n \div (10 ^ (7 - i))) % 10) + 1]]

\* u64::to_string
to_string(x) ==
    LET all == Pad7(x[1]) \o Pad7(x[2]) \o Pad7(x[3])
        nz  == FirstStop(all, 1, LAMBDA j : all[j] # "0")
    IN  IF nz > Len(all) THEN <<"0">> ELSE SubSeq(all, nz, Len(all))

---------------------------------------------------------------------------
(* The grammar of handle_md.rs.  Or is ordered choice, Vec and VecN<N, _>  *)
(* repeat greedily (VecN needs at least N matches), IsNot is a negative    *)
(* lookahead, Option never fails.  A tuple of parsers is their             *)
(* composition: the next parser starts where the previous one stopped, and *)
(* a parser started at 0 returns 0.                                        *)

NOTE_ID_COMMENT_START == <<"<", "!", "-", "-", "N", "o", "t", "e", "I", "D", ":">>

NOTE_ID_COMMENT_END == <<"-", "-", ">">>

\* Or<(A, B)> on the results a of A and b of B
Or(a, b) == IF a # 0 THEN a ELSE b

\* (IsNot<A>, B) on the results a of A and b of B
IsNot(a, b) == IF a # 0 THEN 0 ELSE b

\* VecN<1, T>: e is where the repetition of T started at b stopped
VecN1(b, e) == IF b # 0 /\ e > b THEN e ELSE 0

TStr(s, i, lit) == IF StartsWith(s, i, lit) THEN i + Len(lit) ELSE 0

char(s, i) == IF 1 <= i /\ i <= Len(s) THEN i + 1 ELSE 0

\* type Newline = Or<(TStr<"\r">, TStr<"\n">, TStr<"\r\n">)>
Newline(s, i) ==
    Or(TStr(s, i, <<"\r">>), Or(TStr(s, i, <<"\n">>), TStr(s, i, <<"\r", "\n">>)))

\* (TStr<open>, VecN<1, (IsNot<TStr<close>>, char)>, TStr<close>)
Delimited(s, i, open, close) ==
    TStr(s, VecN1(TStr(s, i, open),
                  FirstStop(s, TStr(s, i, open), LAMBDA k : StartsWith(s, k, close))),
         close)

InlineCode(s, i) == Delimited(s, i, <<BT>>, <<BT>>)

MultilineCode(s, i) == Delimited(s, i, <<BT, BT, BT>>, <<BT, BT, BT>>)

\* type Code = Or<(InlineCode, MultilineCode)>
Code(s, i) == Or(InlineCode(s, i), MultilineCode(s, i))

InlineMath(s, i) == Delimited(s, i, <<"$">>, <<"$">>)

DisplayMath(s, i) == Delimited(s, i, <<"$", "$">>, <<"$", "$">>)

\* type Math = Or<(InlineMath, DisplayMath)>
Math(s, i) == Or(InlineMath(s, i), DisplayMath(s, i))

\* type LinkRename = (LinkRenameSeparator, VecN<1, (IsNot<Or<(TStr<"]]">, Newline)>>, char)>)
LinkRename(s, j) ==
    VecN1(TStr(s, j, <<"|">>),
          FirstStop(s, TStr(s, j, <<"|">>), LAMBDA k : \/ StartsWith(s, k, <<"]", "]">>)
                                                       \/ Newline(s, k) # 0))

\* the end of Link: j is where the target stopped, r where Option<LinkRename> stopped
LinkEnd(s, display, b, j, r) ==
    IF TStr(s, r, <<"]", "]">>) = 0
    THEN [end |-> 0, display |-> FALSE, target |-> <<>>, rename |-> None]
    ELSE [end |-> r + 2, display |-> display, target |-> SubSeq(s, b, j - 1),
          rename |-> IF r > j THEN Some(SubSeq(s, j + 1, r - 1)) ELSE None]

LinkRest(s, display, b, j) == LinkEnd(s, display, b, j, Or(LinkRename(s, j), j))

\* the target of Link: VecN<1, (IsNot<Or<(TStr<"]]">, Newline, LinkRenameSeparator)>>, char)>
LinkTarget(s, display, b) ==
    LinkRest(s, display, b,
             VecN1(b, FirstStop(s, b, LAMBDA k : \/ StartsWith(s, k, <<"]", "]">>)
                                                 \/ Newline(s, k) # 0
                                                 \/ StartsWith(s, k, <<"|">>))))

\* type Link: [end, display, target, rename]; end = 0 when it does not match
Link(s, i) ==
    LinkTarget(s, StartsWith(s, i, <<"!">>),
               TStr(s, Or(TStr(s, i, <<"!">>), i), <<"[", "[">>))

\* type Element = Or<(Code, Math, Link, char)>
Element(s, i) == Or(Code(s, i), Or(Math(s, i), Or(Link(s, i).end, char(s, i))))

\* VecN<1, (IsNot<TStr<"==">>, Element)>: the position where the repetition stops
RECURSIVE ClozeBody(_, _)
ClozeBodyNext(s, j, e) == IF e = 0 THEN j ELSE ClozeBody(s, e)

ClozeBody(s, j) == ClozeBodyNext(s, j, IsNot(TStr(s, j, <<"=", "=">>), Element(s, j)))

\* type Cloze = (TStr<"==">, VecN<1, (IsNot<TStr<"==">>, Element)>, TStr<"==">)
Cloze(s, i) ==
    IF TStr(s, i, <<"=", "=">>) = 0 THEN 0
    ELSE TStr(s, VecN1(i + 2, ClozeBody(s, i + 2)), <<"=", "=">>)

\* the end of NoteIdComment: b is where the digits start, j where they stop
NoteIdCommentEnd(s, b, j, e) ==
    IF e = 0 THEN [end |-> 0, digits |-> <<>>]
    ELSE [end |-> Or(Newline(s, e), e), digits |-> SubSeq(s, b, j - 1)]

\* VecN<10, RangedChar<'0', '9'>>, TStr<NOTE_ID_COMMENT_END>
NoteIdCommentDigits(s, b, j) ==
    NoteIdCommentEnd(s, b, j,
                     IF b # 0 /\ j - b >= 10 THEN TStr(s, j, NOTE_ID_COMMENT_END) ELSE 0)

NoteIdCommentStart(s, b) ==
    NoteIdCommentDigits(s, b, FirstStop(s, b, LAMBDA k : ~IsDigit(s[k])))

\* type NoteIdComment: [end, digits]; end = 0 when it does not match
NoteIdComment(s, i) == NoteIdCommentStart(s, TStr(s, Newline(s, i), NOTE_ID_COMMENT_START))

---------------------------------------------------------------------------
(* The inline element renderer.  m is what the math tools do in this run:  *)
(* "latex" (typst rejects the text), "typst" (typst accepts it, pandoc     *)
(* converts it) or "error" (a subprocess fails).  A rendering is           *)
(* [str, math, pics]: the text, whether convert_math was called, and the   *)
(* pictures pushed.                                                        *)

IMAGE_EXTENSIONS ==
    { <<"j", "p", "g">>, <<"j", "p", "e", "g">>, <<"j", "x", "l">>, <<"p", "n", "g">>,
      <<"g", "i", "f">>, <<"b", "m", "p">>, <<"s", "v", "g">>, <<"w", "e", "b", "p">>,
      <<"a", "p", "n", "g">>, <<"i", "c", "o">>, <<"t", "i", "f">>,
      <<"t", "i", "f", "f">>, <<"a", "v", "i", "f">> }

\* the files that exist on disk beside the notes
EXISTING_FILES == { <<"p", ".", "p", "n", "g">>, <<"n", ".", "m", "d">> }

\* Path::extension: the text after the last "." of the file name
Extension(path) ==
    LET dots == {k \in 2..Len(path) : path[k] = "." /\ path[k - 1] # "/"}
    IN  IF dots = {} THEN None
        ELSE SubSeq(path, (CHOOSE k \in dots : \A l \in dots : l <= k) + 1, Len(path))

\* maybe_handle_image: the pictures pushed (none when it returns None)
maybe_handle_image(path) ==
    IF Extension(path) \in IMAGE_EXTENSIONS /\ path \in EXISTING_FILES
    THEN <<[path |-> path, filename |-> path]>>
    ELSE <<>>

Join(a, b) ==
    [str |-> a.str \o b.str, math |-> a.math \/ b.math, pics |-> a.pics \o b.pics,
     overflow |-> a.overflow \/ b.overflow]

Plain(t) == [str |-> t, math |-> FALSE, pics |-> <<>>, overflow |-> FALSE]

\* the end of link_to_string: pics is what maybe_handle_image pushed
LinkString(contents, pics) ==
    [str |-> IF pics # <<>> THEN <<>> ELSE contents, math |-> FALSE, pics |-> pics,
     overflow |-> FALSE]

LinkContents(display, contents) ==
    LinkString(contents, IF display THEN maybe_handle_image(contents) ELSE <<>>)

link_to_string(link) ==
    LinkContents(link.display, IF link.rename # None THEN link.rename[1] ELSE link.target)

\* String::replace("}", "} ")
RECURSIVE ReplaceBrace(_)
ReplaceBrace(t) ==
    IF t = <<>> THEN <<>>
    ELSE (IF Head(t) = "}" THEN <<"}", " ">> ELSE <<Head(t)>>) \o ReplaceBrace(Tail(t))

\* pandoc -f typst -t latex on "$x$" or "$ x $"
typst_to_latex(inner, inline) ==
    IF inline THEN <<"\\", "(">> \o inner \o <<"\\", ")">>
    ELSE <<"\\", "[">> \o inner \o <<"\\", "]">>

\* convert_math before the replace: pandoc's output when typst compiles the math,
\* else the latex style math
MathChoice(inner, inline, typst, pandoc) ==
    IF typst THEN pandoc
    ELSE IF inline THEN <<"\\", "(">> \o inner \o <<"\\", ")">>
    ELSE <<"\\", "[">> \o inner \o <<"\\", "]">>

\* the second half of convert_math: is_typst, typst_to_latex, replace
MathReplaced(inner, inline, typst, pandoc) ==
    ReplaceBrace(MathChoice(inner, inline, typst, pandoc))

MathString(inner, inline, m) ==
    Plain(MathReplaced(inner, inline, m = "typst", typst_to_latex(inner, inline)))

\* String::replace("}}", "} }") of main.rs: matches are taken left to right and do
\* not overlap
RECURSIVE ReplaceBraces(_)
ReplaceBraces(t) ==
    IF Len(t) >= 2 /\ t[1] = "}" /\ t[2] = "}"
    THEN <<"}", " ", "}">> \o ReplaceBraces(SubSeq(t, 3, Len(t)))
    ELSE IF t = <<>> THEN <<>>
    ELSE <<Head(t)>> \o ReplaceBraces(Tail(t))

\* convert_math of main.rs, the line-oriented handle_md
main_convert_math(inner, inline, typst, pandoc) ==
    ReplaceBraces(MathChoice(inner, inline, typst, pandoc))

\* convert_math on the Math from i to e; inline is the arm of the Or that matched
convert_math(s, i, e, inline, m) ==
    [MathString(IF inline THEN SubSeq(s, i + 1, e - 2) ELSE SubSeq(s, i + 2, e - 3),
                inline, m) EXCEPT !.math = TRUE]

\* the arms of element_to_string on the results of Code, Math and Link at i
ElementString(s, i, m, code, math, link) ==
    IF code # 0 THEN Plain(SubSeq(s, i, code - 1))
    ELSE IF math # 0 THEN convert_math(s, i, math, InlineMath(s, i) # 0, m)
    ELSE IF link.end # 0 THEN link_to_string(link)
    ELSE Plain(<<s[i]>>)

element_to_string(s, i, m) == ElementString(s, i, m, Code(s, i), Math(s, i), Link(s, i))

\* the elements from position j up to position e, rendered in order
RECURSIVE RenderSpan(_, _, _, _)
RenderSpan(s, j, e, m) ==
    IF j >= e THEN Plain(<<>>)
    ELSE Join(element_to_string(s, j, m), RenderSpan(s, Element(s, j), e, m))

---------------------------------------------------------------------------
(* Headings *)

\* Vec<(IsNot<Newline>, Element)>: the position where the repetition stops
RECURSIVE HeadingBody(_, _)
HeadingBodyNext(s, j, e) == IF e = 0 THEN j ELSE HeadingBody(s, e)

HeadingBody(s, j) ==
    IF j = 0 THEN 0 ELSE HeadingBodyNext(s, j, IsNot(Newline(s, j), Element(s, j)))

\* the end of Heading: b is where the contents start, e where they stop
HeadingEnd(s, i, b, e) ==
    IF Newline(s, e) = 0 THEN [end |-> 0, level |-> 0, from |-> 0, to |-> 0]
    ELSE [end |-> Newline(s, e), level |-> b - 1 - i, from |-> b, to |-> e]

HeadingContents(s, i, b) == HeadingEnd(s, i, b, HeadingBody(s, b))

\* type Heading: [end, level, from, to]; end = 0 when it does not match
Heading(s, i) ==
    HeadingContents(s, i, TStr(s, VecN1(i, FirstStop(s, i, LAMBDA j : s[j] # "#")),
                               <<" ">>))

Truncate(v, n) == IF Len(v) > n THEN SubSeq(v, 1, n) ELSE v

\* the match of handle_heading on level.cmp(&headings.len())
handle_heading(level, contents, hs) ==
    IF level < Len(hs)
    THEN [Truncate(SubSeq(hs, 1, Len(hs) - 1), level) EXCEPT ![level] = contents]
    ELSE IF level = Len(hs)
    THEN [hs EXCEPT ![level] = contents]
    ELSE hs \o [k \in 1..(level - Len(hs)) |-> <<>>] \o <<contents>>

\* handle_cloze_lines: for heading in headings { if !heading.is_empty() { " > {heading}" } }
RECURSIVE Breadcrumb(_)
Breadcrumb(hs) ==
    IF hs = <<>> THEN <<>>
    ELSE (IF Head(hs) # <<>> THEN <<" ", ">", " ">> \o Head(hs) ELSE <<>>)
         \o Breadcrumb(Tail(hs))

\* type Tag = (TStr<"#">, VecN<1, (IsNot<Or<(TStr<"#">, TStr<" ">, Newline)>>, char)>)
Tag(s, i) ==
    VecN1(TStr(s, i, <<"#">>),
          FirstStop(s, TStr(s, i, <<"#">>), LAMBDA k : \/ s[k] = "#"
                                                       \/ s[k] = " "
                                                       \/ Newline(s, k) # 0))

---------------------------------------------------------------------------
(* Cloze lines *)

\* Vec<(IsNot<Or<(Cloze, Newline)>>, Element)>: the position where it stops
RECURSIVE ClozePrefix(_, _)
ClozePrefixNext(s, j, e) == IF e = 0 THEN j ELSE ClozePrefix(s, e)

ClozePrefix(s, j) ==
    ClozePrefixNext(s, j, IsNot(Or(Cloze(s, j), Newline(s, j)), Element(s, j)))

\* the number of halvings that covers a loop over s: 2^LoopDepth(s) > Len(s)
LoopDepth(s) == CHOOSE d \in 0..32 : 2 ^ d > Len(s) /\ (d = 0 \/ 2 ^ (d - 1) <= Len(s))

\* Vec<Or<(Cloze, (IsNot<Newline>, Element))>>: the position where it stops.  The
\* repetition is a loop on [pos, done]; ClozeRestLoop(s, st, n) runs up to 2^n turns
\* of it from st (two halves of 2^(n-1) turns), which keeps the evaluation shallow
\* on a block of hundreds of clozes.
ClozeRestStep(st, e) ==
    IF e = 0 THEN [st EXCEPT !.done = TRUE] ELSE [st EXCEPT !.pos = e]

RECURSIVE ClozeRestLoop(_, _, _)
ClozeRestLoop(s, st, n) ==
    IF st.done THEN st
    ELSE IF n = 0
    THEN ClozeRestStep(st, Or(Cloze(s, st.pos),
                              IsNot(Newline(s, st.pos), Element(s, st.pos))))
    ELSE ClozeRestLoop(s, ClozeRestLoop(s, st, n - 1), n - 1)

ClozeRest(s, j) ==
    IF j = 0 THEN 0
    ELSE ClozeRestLoop(s, [pos |-> j, done |-> FALSE], LoopDepth(s)).pos

\* the end of ClozeLines: Option<NoteIdComment>, RemainingLength
ClozeLinesEnd(s, i, p, r, c) ==
    IF r = 0 THEN [end |-> 0, start |-> i, first |-> 0, rest |-> 0, comment |-> c]
    ELSE [end |-> Or(c.end, r), start |-> i, first |-> p, rest |-> r, comment |-> c]

ClozeLinesComment(s, i, p, r) == ClozeLinesEnd(s, i, p, r, NoteIdComment(s, r))

ClozeLinesFirst(s, i, p) == ClozeLinesComment(s, i, p, ClozeRest(s, Cloze(s, p)))

\* type ClozeLines: [end, start, first, rest, comment]; end = 0 when it does not
\* match.  first is where the mandatory Cloze starts, rest where the third part stops,
\* end where RemainingLength is taken.
ClozeLines(s, i) == ClozeLinesFirst(s, i, ClozePrefix(s, i))

\* u8::MAX, the largest value of cloze_num
U8_MAX == 255

\* add_cloze on the Cloze from j to c: cloze_num is the number already incremented
add_cloze(s, j, c, cloze_num, m) ==
    Join(Plain(<<"{", "{", "c">> \o to_string(U64(cloze_num)) \o <<":", ":">>),
         Join(RenderSpan(s, j + 2, c - 2, m), Plain(<<"}", "}">>)))

\* the loop of handle_cloze_lines over cloze_lines.2, from position j up to e, on
\* [pos, cloze_num, out, done]: cloze_num (a u8) is the number of clozes added so
\* far, out the rendering so far.  *cloze_num += 1 at U8_MAX panics with overflow
\* checks (the loop stops there, overflow set) and wraps to 0 without.
\* RenderRestLoop(.., n) runs up to 2^n turns, as ClozeRestLoop does.
RenderRestStep(s, st, e, m, checks, c) ==
    IF st.pos >= e THEN [st EXCEPT !.done = TRUE]
    ELSE IF c # 0 /\ st.cloze_num = U8_MAX /\ checks
    THEN [st EXCEPT !.done = TRUE, !.out = [st.out EXCEPT !.overflow = TRUE]]
    ELSE IF c # 0
    THEN [pos |-> c, cloze_num |-> (st.cloze_num + 1) % (U8_MAX + 1),
          out |-> Join(st.out, add_cloze(s, st.pos, c,
                                         (st.cloze_num + 1) % (U8_MAX + 1), m)),
          done |-> FALSE]
    ELSE [pos |-> Element(s, st.pos), cloze_num |-> st.cloze_num,
          out |-> Join(st.out, element_to_string(s, st.pos, m)), done |-> FALSE]

RECURSIVE RenderRestLoop(_, _, _, _, _, _)
RenderRestLoop(s, st, e, m, checks, n) ==
    IF st.done THEN st
    ELSE IF n = 0 THEN RenderRestStep(s, st, e, m, checks, Cloze(s, st.pos))
    ELSE RenderRestLoop(s, RenderRestLoop(s, st, e, m, checks, n - 1), e, m, checks, n - 1)

RenderRest(s, j, e, cloze_num, m, checks) ==
    RenderRestLoop(s, [pos |-> j, cloze_num |-> cloze_num, out |-> Plain(<<>>),
                       done |-> FALSE], e, m, checks, LoopDepth(s)).out

\* path.iter().skip(1) joined by " > ", the last three bytes (".md") cut
RECURSIVE Intersperse(_)
Intersperse(parts) ==
    IF Len(parts) <= 1 THEN Concat(parts)
    ELSE Head(parts) \o <<" ", ">", " ">> \o Intersperse(Tail(parts))

PathStrCut(joined) == SubSeq(joined, 1, Len(joined) - 3)

path_str(path) == PathStrCut(Intersperse(Tail(path)))

\* the ClozeData pushed by handle_cloze_lines, with what can make it fail instead:
\* math (convert_math was called) and overflow (the cloze counter or the fold of
\* the digits overflowed)
ClozeData(s, cl, hs, path, body, id) ==
    [contents |-> body.str \o <<"<", "b", "r", ">">> \o path_str(path) \o Breadcrumb(hs),
     note_id |-> IF cl.comment.end # 0 THEN Some(id.val) ELSE None,
     pictures |-> body.pics,
     remaining_length |-> Len(s) - (cl.end - 1),
     math |-> body.math,
     overflow |-> body.overflow \/ (cl.comment.end # 0 /\ id.overflow)]

handle_cloze_lines(s, cl, hs, path, m, checks) ==
    ClozeData(s, cl, hs, path,
              Join(RenderSpan(s, cl.start, cl.first, m),
                   RenderRest(s, cl.first, cl.rest, 0, m, checks)),
              DecodeId(cl.comment.digits, checks))

---------------------------------------------------------------------------
(* handle_md: File::tparse *)

\* a FileElement that lacks the arms after Tag
FileElementEndNoElement(cl, h, t, e) == Or(cl.end, Or(h.end, t))

\* Or<(ClozeLines, Heading, Tag, Code, Math, Link, char)> on the results of its arms:
\* where the element stops, or 0
FileElementEnd(cl, h, t, e) == Or(cl.end, Or(h.end, Or(t, e)))

\* Vec<FileElement>: the position where the repetition started at j stops
RECURSIVE VecFileElement(_, _)
VecFileElementNext(s, j, e) == IF e = 0 THEN j ELSE VecFileElement(s, e)

VecFileElement(s, j) ==
    VecFileElementNext(s, j, FileElementEnd(ClozeLines(s, j), Heading(s, j), Tag(s, j),
                                            Element(s, j)))

\* type File = AllConsumed<Vec<FileElement>>: whether tparse returns Some
File(s) == VecFileElement(s, 1) = Len(s) + 1

---------------------------------------------------------------------------
(* handle_md: the fold over the parsed file elements *)

\* the state of the fold: error is "none", "math" (MathConvertError returned) or
\* "overflow" (an overflow check panicked: the cloze counter of a block or the fold of
\* an identifier's digits)
FoldStart == [headings |-> <<>>, tags |-> <<>>, clozes |-> <<>>, error |-> "none"]

\* matcher 0: handle_cloze_lines(...)?
OnClozeLines(st, cd, m, checks) ==
    IF cd.math /\ m = "error" THEN [st EXCEPT !.error = "math"]
    ELSE IF cd.overflow /\ checks THEN [st EXCEPT !.error = "overflow"]
    ELSE [st EXCEPT !.clozes = Append(@, [contents |-> cd.contents, note_id |-> cd.note_id,
                                          pictures |-> cd.pictures,
                                          remaining_length |-> cd.remaining_length])]

\* matcher 1: handle_heading(...)?
OnHeading(st, level, c, m) ==
    IF c.math /\ m = "error" THEN [st EXCEPT !.error = "math"]
    ELSE [st EXCEPT !.headings = handle_heading(level, c.str, @)]

\* FileElement = Or<(ClozeLines, Heading, Tag, Code, Math, Link, char)> on the results
\* of its arms at i, with its matcher: [end, st]
FileElementMatch(s, i, st, path, m, checks, cl, h, t) ==
    IF cl.end # 0
    THEN [end |-> cl.end,
          st |-> OnClozeLines(st, handle_cloze_lines(s, cl, st.headings, path, m, checks),
                              m, checks)]
    ELSE IF h.end # 0
    THEN [end |-> h.end, st |-> OnHeading(st, h.level, RenderSpan(s, h.from, h.to, m), m)]
    ELSE IF t # 0
    THEN [end |-> t, st |-> [st EXCEPT !.tags = Append(@, SubSeq(s, i, t - 1))]]
    ELSE [end |-> Element(s, i), st |-> st]

FileElement(s, i, st, path, m, checks) ==
    FileElementMatch(s, i, st, path, m, checks, ClozeLines(s, i), Heading(s, i), Tag(s, i))

\* for file_element in parsed.0.0 { ... matcher.do_match()?; }
RECURSIVE Fold(_, _, _, _, _, _)
FoldNext(s, step, path, m, checks) == Fold(s, step.end, step.st, path, m, checks)

Fold(s, i, st, path, m, checks) ==
    IF i > Len(s) \/ st.error # "none" THEN st
    ELSE FoldNext(s, FileElement(s, i, st, path, m, checks), path, m, checks)

---------------------------------------------------------------------------
(* The inputs of a run *)

LF == <<"\n">>

ClozeB == <<"=", "=", "B", "=", "=">>

ClozeC == <<"=", "=", "C", "=", "=">>

\* digit runs of identifier comments
RunA == <<"1", "7", "0", "0", "0", "0", "0", "0", "0", "0", "0", "0", "1">>

RunB == <<"1", "7", "0", "0", "0", "0", "0", "0", "0", "0", "0", "0", "2">>

\* leading zeros: decodes to 42
RunZ == <<"0", "0", "0", "0", "0", "0", "0", "0", "4", "2">>

\* 2^64 + 2: the fold overflows, and wraps to 2
RunW == <<"1", "8", "4", "4", "6", "7", "4", "4", "0", "7",
          "3", "7", "0", "9", "5", "5", "1", "6", "1", "8">>

IdComment(digits) == LF \o NOTE_ID_COMMENT_START \o digits \o NOTE_ID_COMMENT_END

IdA == <<0, 170000, 1>>

IdB == <<0, 170000, 2>>

IdC == <<0, 170000, 3>>

Id42 == <<0, 0, 42>>

IdD == <<0, 170000, 4>>

\* the paths of the files: ./f.md, ./g.md, ./h.md
Path(f) == << <<".">>, <<<<"f", "g", "h">>[f], ".", "m", "d">> >>

\* the rendered contents of the blocks ==B== and ==C== in file f
Rendered(x, f) == <<"{", "{", "c", "1", ":", ":", x, "}", "}", "<", "b", "r", ">">>
                  \o path_str(Path(f))

TextX == <<"o", "l", "d">>

Files ==
    { <<"A">> \o LF \o ClozeB \o LF,
      ClozeB \o IdComment(RunA) \o LF,
      ClozeB \o IdComment(RunA) \o LF \o LF \o ClozeC \o IdComment(RunB) \o LF,
      ClozeB \o LF \o LF \o ClozeC \o LF,
      ClozeB \o IdComment(RunA) \o LF \o LF \o ClozeC \o LF,
      ClozeB \o IdComment(RunZ),
      ClozeB \o IdComment(RunW),
      <<"2">> \o LF \o ClozeB \o IdComment(RunW),
      <<"#", " ", "A">> \o LF \o <<"#", "#", " ", "C">> \o LF \o ClozeB \o LF,
      <<"=", "=", "$", "x", "$", "=", "=">> \o LF }

\* the files processed after the first one
MoreFiles == { ClozeB \o LF, ClozeC \o IdComment(RunB) }

MaxFiles == 2

\* the directory walked: one file, or the file with an id and others after it
FileLists ==
    { <<a>> : a \in Files }
    \cup { l \in UNION { [1..n -> {ClozeB \o IdComment(RunA) \o LF} \cup MoreFiles]
                          : n \in 2..MaxFiles } :
             /\ l[1] = ClozeB \o IdComment(RunA) \o LF
             /\ \A k \in 2..Len(l) : l[k] \in MoreFiles
             /\ \A j, k \in 1..Len(l) : j # k => l[j] # l[k] }

MaxSnapshot == 2

NoteIds == {IdA, IdB, IdC}

NoteTexts == {Rendered("B", 1), Rendered("C", 1), TextX}

Note(id, text) == [id |-> id, text |-> text, seen |-> FALSE]

\* the snapshots initialize_notes can leave in NOTES: ids are distinct
Snapshots ==
    { n \in UNION { [1..k -> {Note(i, x) : i \in NoteIds, x \in NoteTexts}]
                    : k \in 0..MaxSnapshot } :
        \A a, b \in 1..Len(n) : a # b => n[a].id # n[b].id }

\* the ids add_cloze_note can return
CreateIds == {Id42, IdD}

---------------------------------------------------------------------------
(* The run: handle_md on every file, then handle_unseen_notes *)

FileIds == 1..Len(fs)

\* the build profiles to tell apart on these files.  The two differ only where an
\* operation overflows: on an id run of 20 digits or more (a block of these files
\* has fewer than U8_MAX clozes)
Profiles(files) ==
    IF \E f \in 1..Len(files) : \E k \in 1..(Len(files[f]) - 19) :
           \A j \in k..(k + 19) : IsDigit(files[f][j])
    THEN BOOLEAN
    ELSE {FALSE}

Init ==
    /\ fs \in FileLists
    /\ NOTES \in Snapshots
    /\ overflow_checks \in Profiles(fs)
    /\ deck_mapped \in BOOLEAN
    /\ pc = [f \in FileIds |-> "start"]
    /\ str = [f \in FileIds |-> <<>>]
    /\ tags = [f \in FileIds |-> <<>>]
    /\ clozes = [f \in FileIds |-> <<>>]
    /\ idx = [f \in FileIds |-> 0]
    /\ last_read = [f \in FileIds |-> 0]
    /\ out_string = [f \in FileIds |-> <<>>]
    /\ calls = {}
    /\ matches = {}
    /\ upc = "idle"
    /\ uidx = 0
    /\ offered = <<>>
    /\ deleted = <<>>
    /\ run = 1
    /\ first_run = [fs |-> <<>>, clean |-> FALSE]
    /\ UnseenIdle
    /\ headings = <<>>
    /\ applied = <<>>
    /\ MathIdle
    /\ RequestIdle

\* what typst and pandoc can do with the math of a text
MathModes(s) ==
    IF \E k \in 1..Len(s) : s[k] = "$" THEN {"latex", "typst", "error"} ELSE {"latex"}

\* handle_md up to the end of the fold: read, parse, fold
ReadAndFold(f) ==
    /\ pc[f] = "start"
    /\ upc = "idle"
    /\ \E read_ok \in BOOLEAN :
         IF ~read_ok
         THEN /\ pc' = [pc EXCEPT ![f] = "err_io"]
              /\ UNCHANGED <<str, tags, clozes>>
         ELSE \E m \in MathModes(fs[f]) :
              \E parsed \in {File(fs[f])} :
              \E st \in {IF parsed
                          THEN Fold(fs[f], 1, FoldStart, Path(f), m, overflow_checks)
                          ELSE FoldStart} :
                /\ pc' = [pc EXCEPT ![f] = IF ~parsed THEN "panic_parse"
                                            ELSE IF st.error = "math" THEN "err_math"
                                            ELSE IF st.error = "overflow" THEN "panic"
                                            ELSE "loop"]
                /\ str' = [str EXCEPT ![f] = fs[f]]
                /\ tags' = [tags EXCEPT ![f] = st.tags]
                /\ clozes' = [clozes EXCEPT ![f] = IF parsed /\ st.error = "none"
                                                   THEN st.clozes
                                                   ELSE <<>>]
    /\ UNCHANGED <<fs, NOTES, overflow_checks, deck_mapped, idx, last_read, out_string,
                   calls, matches, upc, uidx, offered, deleted, run, first_run, buf, delete_ret,
                   headings, applied, math_vars, request_vars, scan>>

\* a find that never matches
FindNoteNone(notes, cloze) == 0

\* NOTES.lock()?.iter_mut().find(|(note, _)| ...): the index of the note found, or 0
FindNote(notes, cloze) ==
    LET hits == {k \in 1..Len(notes) :
                    \/ cloze.note_id # None /\ cloze.note_id[1] = notes[k].id
                    \/ notes[k].text = cloze.contents}
    IN  IF hits = {} THEN 0 ELSE CHOOSE k \in hits : \A l \in hits : k <= l

\* String::rfind: the last position where needle starts, or 0
rfind(hay, needle) ==
    LET at == {j \in 1..Len(hay) : StartsWith(hay, j, needle)}
    IN  IF at = {} THEN 0 ELSE CHOOSE j \in at : \A l \in at : l <= j

\* a splice that writes a new id without the newline before the comment
SpliceNoNewline(out, note_id, final_id) ==
    [panic |-> FALSE,
     out |-> IF final_id # None /\ note_id = None
             THEN out \o NOTE_ID_COMMENT_START \o to_string(final_id[1])
                      \o NOTE_ID_COMMENT_END
             ELSE out]

\* a splice that writes a comment although the store call failed
SpliceOnFailure(out, note_id, final_id) ==
    [panic |-> FALSE,
     out |-> IF final_id = None
             THEN out \o LF \o NOTE_ID_COMMENT_START \o NOTE_ID_COMMENT_END
             ELSE out]

\* the match (note_id, final_id) of handle_md on the output copied so far:
\* [panic, out], panic when the expect on rfind fails
Splice(out, note_id, final_id) ==
    IF final_id = None THEN [panic |-> FALSE, out |-> out]
    ELSE IF note_id = None
    THEN [panic |-> FALSE,
          out |-> out \o LF \o NOTE_ID_COMMENT_START \o to_string(final_id[1])
                      \o NOTE_ID_COMMENT_END]
    ELSE LET previous_id_string == to_string(note_id[1])
             start_previous_id  == rfind(out, previous_id_string)
         IN  IF start_previous_id = 0 THEN [panic |-> TRUE, out |-> out]
             ELSE [panic |-> FALSE,
                   out |-> SubSeq(out, 1, start_previous_id - 1)
                           \o to_string(final_id[1])
                           \o SubSeq(out, start_previous_id + Len(previous_id_string),
                                     Len(out))]

\* the ids the store can give a new note: those no note has yet
FreshIds ==
    CreateIds \ ({NOTES[k].id : k \in 1..Len(NOTES)}
                 \cup {c.final[1] : c \in {d \in calls : d.op = "create" /\ d.final # None}})

\* the id update_cloze_note(cloze, tags) sends its UpdateNote for: that of the
\* note matched, as in update(matchedId, contents, tags)
UpdateTarget(notes, found) == Some(notes[found].id)

\* a final id that is the matched id whether the update succeeded or not
UpdateFinalAlways(ok, note_id) == Some(note_id)

\* final_id of the arm "update existing note"
UpdateFinal(ok, note_id) == IF ok THEN Some(note_id) ELSE None

\* a marking that keeps the flag of the note found and clears the others
MarkSeenAlone(notes, found) ==
    [k \in 1..Len(notes) |-> [notes[k] EXCEPT !.seen = (k = found)]]

\* .map(|(note, seen)| { *seen = true; note.id })
MarkSeen(notes, found) == [notes EXCEPT ![found].seen = TRUE]

\* one iteration of "for cloze in clozes" of handle_md
Reconcile(f) ==
    /\ pc[f] = "loop"
    /\ idx[f] < Len(clozes[f])
    /\ LET cloze  == clozes[f][idx[f] + 1]
           found  == FindNote(NOTES, cloze)
           index  == Len(str[f]) - cloze.remaining_length
           copied == out_string[f] \o Slice(str[f], last_read[f], index)
           Finish(op, final_id) ==
               \E sp \in {Splice(copied, cloze.note_id, final_id)} :
                   /\ calls' = calls \cup {[file |-> f, k |-> idx[f] + 1, op |-> op,
                                            target |-> IF op = "update"
                                                       THEN UpdateTarget(NOTES, found)
                                                       ELSE None,
                                            note_id |-> cloze.note_id,
                                            contents |-> cloze.contents,
                                            final |-> final_id]}
                   /\ IF sp.panic
                      THEN /\ pc' = [pc EXCEPT ![f] = "panic"]
                           /\ UNCHANGED <<idx, last_read, out_string>>
                      ELSE /\ pc' = pc
                           /\ idx' = [idx EXCEPT ![f] = @ + 1]
                           /\ last_read' = [last_read EXCEPT ![f] = index]
                           /\ out_string' = [out_string EXCEPT ![f] = sp.out]
       IN  /\ matches' = matches \cup {[file |-> f, k |-> idx[f] + 1,
                                        note_id |-> cloze.note_id,
                                        contents |-> cloze.contents,
                                        actual |-> IF found = 0 THEN None
                                                   ELSE Some(NOTES[found].id)]}
           /\ IF found # 0
              THEN \* update existing note
                   /\ NOTES' = MarkSeen(NOTES, found)
                   /\ \E ok \in BOOLEAN :
                        Finish("update", UpdateFinal(ok, NOTES[found].id))
              ELSE \* add new note
                   /\ NOTES' = NOTES
                   /\ IF ~deck_mapped
                      THEN /\ pc' = [pc EXCEPT ![f] = "err_deck"]
                           /\ UNCHANGED <<idx, last_read, out_string, calls>>
                      ELSE \E res \in {None} \cup {Some(i) : i \in FreshIds} :
                             Finish("create", res)
    /\ UNCHANGED <<fs, overflow_checks, deck_mapped, str, tags, clozes, upc, uidx,
                   offered, deleted, run, first_run, buf, delete_ret, headings, applied, math_vars, request_vars, scan>>

\* the end of handle_md: the rest of the text is copied and the file written
Write(f) ==
    /\ pc[f] = "loop"
    /\ idx[f] = Len(clozes[f])
    /\ \E write_ok \in BOOLEAN :
         IF write_ok
         THEN /\ fs' = [fs EXCEPT ![f] = out_string[f]
                                         \o Slice(str[f], last_read[f], Len(str[f]))]
              /\ pc' = [pc EXCEPT ![f] = "written"]
         ELSE /\ fs' = fs
              /\ pc' = [pc EXCEPT ![f] = "err_io"]
    /\ UNCHANGED <<NOTES, overflow_checks, deck_mapped, str, tags, clozes, idx,
                   last_read, out_string, calls, matches, upc, uidx, offered, deleted,
                   run, first_run, buf, delete_ret, headings, applied, math_vars, request_vars, scan>>

---------------------------------------------------------------------------
(* handle_unseen_notes *)

\* every handle_md has returned
AllReturned == \A f \in FileIds : pc[f] \in {"written", "err_io", "err_math", "err_deck"}

UnseenStart ==
    /\ upc = "idle"
    /\ AllReturned
    /\ upc' = "scan"
    /\ uidx' = 1
    /\ UNCHANGED <<fs, NOTES, overflow_checks, deck_mapped, pc, str, tags, clozes, idx,
                   last_read, out_string, calls, matches, offered, deleted, run,
                   first_run, buf, delete_ret, headings, applied, math_vars, request_vars, scan>>

\* a scan that prompts for every note, seen or not
UnseenScanAll ==
    /\ upc = "scan"
    /\ IF uidx > Len(NOTES)
       THEN upc' = "done" /\ UNCHANGED <<uidx, offered>>
       ELSE /\ offered' = Append(offered, NOTES[uidx].id)
            /\ upc' = "prompt"
            /\ uidx' = uidx
    /\ UNCHANGED <<fs, NOTES, overflow_checks, deck_mapped, pc, str, tags, clozes, idx,
                   last_read, out_string, calls, matches, deleted, run, first_run, buf, delete_ret,
                   headings, applied, math_vars, request_vars, scan>>

\* for (note, seen) in NOTES.lock()?.iter() { if !seen { println!(...) ... } }
UnseenScan ==
    /\ upc = "scan"
    /\ IF uidx > Len(NOTES)
       THEN upc' = "done" /\ UNCHANGED <<uidx, offered>>
       ELSE IF NOTES[uidx].seen
       THEN uidx' = uidx + 1 /\ UNCHANGED <<upc, offered>>
       ELSE /\ offered' = Append(offered, NOTES[uidx].id)
            /\ upc' = "prompt"
            /\ uidx' = uidx
    /\ UNCHANGED <<fs, NOTES, overflow_checks, deck_mapped, pc, str, tags, clozes, idx,
                   last_read, out_string, calls, matches, deleted, run, first_run, buf, delete_ret,
                   headings, applied, math_vars, request_vars, scan>>

\* Err(other) => Err(other)? : every error of the request but ErrorNorResult
DeleteFatalAlways(outcome) == outcome # "ok"

DeleteFatal(outcome) == outcome = "error"

\* one turn of the loop on stdin().read_line(&mut buf)?
UnseenAnswer ==
    /\ upc = "prompt"
    /\ \E line \in {"yes", "no", "other", "stdin_err"},
          outcome \in {"ok", "ErrorNorResult", "error"} :
         CASE line = "yes" ->
                /\ buf' = "yes"
                /\ deleted' = Append(deleted, NOTES[uidx].id)
                /\ delete_ret' = Some(outcome)
                /\ IF DeleteFatal(outcome)
                   THEN upc' = "err_delete" /\ uidx' = uidx
                   ELSE upc' = "scan" /\ uidx' = uidx + 1
           [] line = "no" ->
                /\ outcome = "ok"
                /\ buf' = "no" /\ delete_ret' = None
                /\ upc' = "scan" /\ uidx' = uidx + 1 /\ deleted' = deleted
           [] line = "other" ->
                /\ outcome = "ok"
                /\ buf' = "other" /\ delete_ret' = None
                /\ UNCHANGED <<upc, uidx, deleted>>
           [] line = "stdin_err" ->
                /\ outcome = "ok"
                /\ buf' = "" /\ delete_ret' = None
                /\ upc' = "err_stdin" /\ UNCHANGED <<uidx, deleted>>
    /\ UNCHANGED <<fs, NOTES, overflow_checks, deck_mapped, pc, str, tags, clozes, idx,
                   last_read, out_string, calls, matches, offered, run, first_run,
                   headings, applied, math_vars, request_vars, scan>>

---------------------------------------------------------------------------
(* The run repeated on what the first run wrote *)

RECURSIVE CreatedNotes(_)
CreatedNotes(cs) ==
    IF cs = {} THEN <<>>
    ELSE LET c == CHOOSE c \in cs : \A d \in cs : c.file < d.file \/ (c.file = d.file /\ c.k <= d.k)
         IN  <<Note(c.final[1], c.contents)>> \o CreatedNotes(cs \ {c})

\* the program run again after a run that returned Ok: initialize_notes reads the
\* snapshot of the first run, less the notes deleted, extended by the notes created
SecondRun ==
    /\ run = 1
    /\ upc = "done"
    /\ \A f \in FileIds : pc[f] = "written"
    /\ run' = 2
    /\ first_run' = [fs |-> fs, clean |-> \A c \in calls : c.final # None]
    /\ NOTES' = SelectSeq([k \in 1..Len(NOTES) |-> [NOTES[k] EXCEPT !.seen = FALSE]],
                          LAMBDA n : \A k \in 1..Len(deleted) : deleted[k] # n.id)
                \o CreatedNotes({c \in calls : c.op = "create" /\ c.final # None})
    /\ pc' = [f \in FileIds |-> "start"]
    /\ str' = [f \in FileIds |-> <<>>]
    /\ tags' = [f \in FileIds |-> <<>>]
    /\ clozes' = [f \in FileIds |-> <<>>]
    /\ idx' = [f \in FileIds |-> 0]
    /\ last_read' = [f \in FileIds |-> 0]
    /\ out_string' = [f \in FileIds |-> <<>>]
    /\ calls' = {}
    /\ matches' = {}
    /\ upc' = "idle"
    /\ uidx' = 0
    /\ offered' = <<>>
    /\ deleted' = <<>>
    /\ buf' = "" /\ delete_ret' = None
    /\ UNCHANGED <<fs, overflow_checks, deck_mapped, headings, applied, math_vars, request_vars, scan>>

Next ==
    \/ \E f \in FileIds : ReadAndFold(f)
    \/ \E f \in FileIds : Reconcile(f)
    \/ \E f \in FileIds : Write(f)
    \/ UnseenStart
    \/ UnseenScan
    \/ UnseenAnswer
    \/ SecondRun

Spec == Init /\ [][Next]_vars

---------------------------------------------------------------------------
(* handle_heading on its own: headings of every level and text applied to  *)
(* a stack that starts empty, as handle_md's fold starts it                *)

MaxLevel == 3

MaxHeadings == 3

HeadingTexts == { <<"A">>, <<"B">>, <<"C">> }

HeadingInit ==
    /\ headings = <<>>
    /\ applied = <<>>
    /\ MathIdle
    /\ RequestIdle
    /\ fs = <<>> /\ NOTES = <<>> /\ overflow_checks = TRUE /\ deck_mapped = TRUE
    /\ pc = <<>> /\ str = <<>> /\ tags = <<>> /\ clozes = <<>> /\ idx = <<>>
    /\ last_read = <<>> /\ out_string = <<>> /\ calls = {} /\ matches = {}
    /\ upc = "idle" /\ uidx = 0 /\ offered = <<>> /\ deleted = <<>> /\ run = 1
    /\ first_run = [fs |-> <<>>, clean |-> FALSE]
    /\ UnseenIdle

\* one Heading of the file met by the fold: level "#"s, then the contents
ApplyHeading ==
    /\ Len(applied) < MaxHeadings
    /\ \E level \in 1..MaxLevel, contents \in HeadingTexts :
         /\ headings' = handle_heading(level, contents, headings)
         /\ applied' = Append(applied, [level |-> level, contents |-> contents])
    /\ UNCHANGED <<fs, NOTES, overflow_checks, deck_mapped, pc, str, tags, clozes, idx,
                   last_read, out_string, calls, matches, upc, uidx, offered, deleted,
                   run, first_run, buf, delete_ret, math_vars, request_vars, scan>>

HeadingNext == ApplyHeading

HeadingSpec == HeadingInit /\ [][HeadingNext]_vars

---------------------------------------------------------------------------
(* handle_md on one file of any shape, with an empty snapshot: the texts   *)
(* are every string of up to MaxChars characters of Chars, every           *)
(* concatenation of up to MaxPieces pieces of Pieces, and one block of     *)
(* U8_MAX + 1 clozes                                                       *)

Chars == {"\r", "\n", "=", "$", BT, "[", "]", "B", "#", " "}

MaxChars == 3

CharTexts == UNION { [1..n -> Chars] : n \in 0..MaxChars }

ClozeM == <<"=", "=", "$", "x", "$", "=", "=">>

Pieces == {ClozeB, ClozeM, LF, <<"A">>}

MaxPieces == 5

PieceTexts == { Concat(ps) : ps \in UNION { [1..n -> Pieces] : n \in 0..MaxPieces } }

ManyClozes ==
    [i \in 1..((U8_MAX + 1) * Len(ClozeB)) |-> ClozeB[((i - 1) % Len(ClozeB)) + 1]]

ParseTexts == CharTexts \cup PieceTexts \cup {ManyClozes}

ParseInit ==
    /\ fs \in { <<t>> : t \in ParseTexts }
    /\ NOTES = <<>>
    /\ overflow_checks \in BOOLEAN
    /\ deck_mapped = TRUE
    /\ pc = [f \in FileIds |-> "start"]
    /\ str = [f \in FileIds |-> <<>>]
    /\ tags = [f \in FileIds |-> <<>>]
    /\ clozes = [f \in FileIds |-> <<>>]
    /\ idx = [f \in FileIds |-> 0]
    /\ last_read = [f \in FileIds |-> 0]
    /\ out_string = [f \in FileIds |-> <<>>]
    /\ calls = {}
    /\ matches = {}
    /\ upc = "idle"
    /\ uidx = 0
    /\ offered = <<>>
    /\ deleted = <<>>
    /\ run = 1
    /\ first_run = [fs |-> <<>>, clean |-> FALSE]
    /\ UnseenIdle
    /\ headings = <<>>
    /\ applied = <<>>
    /\ MathIdle
    /\ RequestIdle

ParseNext ==
    \/ \E f \in FileIds : ReadAndFold(f)
    \/ \E f \in FileIds : Reconcile(f)
    \/ \E f \in FileIds : Write(f)

ParseSpec == ParseInit /\ [][ParseNext]_vars

---------------------------------------------------------------------------
(* handle_md on one file that is a cloze-line block followed by an         *)
(* identifier comment: digit runs of every length of RunLengths, after     *)
(* each of the three line endings, with a snapshot that is empty or holds  *)
(* the note of the 13 digit run under another text                         *)

RunLengths == {9, 10, 13, 14, 20}

Newlines == { <<"\n">>, <<"\r">>, <<"\r", "\n">> }

\* the first 13 digits of RunW as an id: 1844674407370
IdW13 == <<0, 184467, 4407370>>

IdTexts ==
    { ClozeB \o nl \o NOTE_ID_COMMENT_START \o SubSeq(RunW, 1, n) \o NOTE_ID_COMMENT_END
        : nl \in Newlines, n \in RunLengths }

IdInit ==
    /\ fs \in { <<t>> : t \in IdTexts }
    /\ NOTES \in { <<>>, <<Note(IdW13, TextX)>> }
    /\ overflow_checks \in BOOLEAN
    /\ deck_mapped = TRUE
    /\ pc = [f \in FileIds |-> "start"]
    /\ str = [f \in FileIds |-> <<>>]
    /\ tags = [f \in FileIds |-> <<>>]
    /\ clozes = [f \in FileIds |-> <<>>]
    /\ idx = [f \in FileIds |-> 0]
    /\ last_read = [f \in FileIds |-> 0]
    /\ out_string = [f \in FileIds |-> <<>>]
    /\ calls = {}
    /\ matches = {}
    /\ upc = "idle"
    /\ uidx = 0
    /\ offered = <<>>
    /\ deleted = <<>>
    /\ run = 1
    /\ first_run = [fs |-> <<>>, clean |-> FALSE]
    /\ UnseenIdle
    /\ headings = <<>>
    /\ applied = <<>>
    /\ MathIdle
    /\ RequestIdle

IdNext ==
    \/ \E f \in FileIds : ReadAndFold(f)
    \/ \E f \in FileIds : Reconcile(f)
    \/ \E f \in FileIds : Write(f)

IdSpec == IdInit /\ [][IdNext]_vars

\* ---------------------------------------------------------------------------
\* Links inside a cloze-line block: ==B== followed by one link
\* ---------------------------------------------------------------------------

LinkMarkers == { <<>>, <<"!">> }

LinkTargets == { <<"p", ".", "p", "n", "g">>, <<"q", ".", "p", "n", "g">>,
                 <<"n", ".", "m", "d">>, <<"B">> }

LinkRenames == { <<>>, <<"|", "B">>, <<"|", "p", ".", "p", "n", "g">> }

LinkTexts ==
    { ClozeB \o m \o <<"[", "[">> \o t \o r \o <<"]", "]">> \o LF
        : m \in LinkMarkers, t \in LinkTargets, r \in LinkRenames }

LinkInit ==
    /\ fs \in { <<t>> : t \in LinkTexts }
    /\ NOTES = <<>>
    /\ overflow_checks = FALSE
    /\ deck_mapped = TRUE
    /\ pc = [f \in FileIds |-> "start"]
    /\ str = [f \in FileIds |-> <<>>]
    /\ tags = [f \in FileIds |-> <<>>]
    /\ clozes = [f \in FileIds |-> <<>>]
    /\ idx = [f \in FileIds |-> 0]
    /\ last_read = [f \in FileIds |-> 0]
    /\ out_string = [f \in FileIds |-> <<>>]
    /\ calls = {}
    /\ matches = {}
    /\ upc = "idle"
    /\ uidx = 0
    /\ offered = <<>>
    /\ deleted = <<>>
    /\ run = 1
    /\ first_run = [fs |-> <<>>, clean |-> FALSE]
    /\ UnseenIdle
    /\ headings = <<>>
    /\ applied = <<>>
    /\ MathIdle
    /\ RequestIdle

LinkNext ==
    \/ \E f \in FileIds : ReadAndFold(f)
    \/ \E f \in FileIds : Reconcile(f)
    \/ \E f \in FileIds : Write(f)

LinkSpec == LinkInit /\ [][LinkNext]_vars

---------------------------------------------------------------------------
(* convert_math on its own, in its two versions: the Math of every inner   *)
(* text of up to MaxMath characters of MathChars, inline and display, with *)
(* typst rejecting it, typst accepting it and pandoc printing any text of  *)
(* PandocTexts, or one of the two tools failing                            *)

MathChars == {"}", "{", "a"}

MaxMath == 4

MathTexts == UNION { [1..n -> MathChars] : n \in 1..MaxMath }

MaxPandoc == 2

PandocTexts == UNION { [1..n -> MathChars] : n \in 0..MaxPandoc } \cup { <<"}", "}", "}">> }

MathInit ==
    /\ math_in \in [inner : MathTexts, inline : BOOLEAN, tool : {"latex", "error"},
                     pandoc : {<<>>}]
                    \cup [inner : MathTexts, inline : BOOLEAN, tool : {"typst"},
                          pandoc : PandocTexts]
    /\ math_out = [handle_md |-> None, main |-> None]
    /\ RequestIdle
    /\ headings = <<>> /\ applied = <<>>
    /\ fs = <<>> /\ NOTES = <<>> /\ overflow_checks = TRUE /\ deck_mapped = TRUE
    /\ pc = <<>> /\ str = <<>> /\ tags = <<>> /\ clozes = <<>> /\ idx = <<>>
    /\ last_read = <<>> /\ out_string = <<>> /\ calls = {} /\ matches = {}
    /\ upc = "idle" /\ uidx = 0 /\ offered = <<>> /\ deleted = <<>> /\ run = 1
    /\ first_run = [fs |-> <<>>, clean |-> FALSE]
    /\ UnseenIdle

MathFrame ==
    UNCHANGED <<fs, NOTES, overflow_checks, deck_mapped, pc, str, tags, clozes, idx,
                last_read, out_string, calls, matches, upc, uidx, offered, deleted,
                run, first_run, buf, delete_ret, headings, applied, math_in, request_vars, scan>>

\* convert_math of handle_md.rs: Ok(string), or the error of is_typst or typst_to_latex
ConvertMath ==
    /\ math_out.handle_md = None
    /\ math_out' = [math_out EXCEPT !.handle_md =
                      Some(IF math_in.tool = "error" THEN [ok |-> FALSE, str |-> <<>>]
                           ELSE [ok |-> TRUE,
                                 str |-> MathReplaced(math_in.inner, math_in.inline,
                                                      math_in.tool = "typst",
                                                      math_in.pandoc)])]
    /\ MathFrame

\* convert_math of main.rs
ConvertMathMain ==
    /\ math_out.main = None
    /\ math_out' = [math_out EXCEPT !.main =
                      Some(IF math_in.tool = "error" THEN [ok |-> FALSE, str |-> <<>>]
                           ELSE [ok |-> TRUE,
                                 str |-> main_convert_math(math_in.inner, math_in.inline,
                                                           math_in.tool = "typst",
                                                           math_in.pandoc)])]
    /\ MathFrame

MathNext ==
    \/ ConvertMath
    \/ ConvertMathMain

MathSpec == MathInit /\ [][MathNext]_vars

---------------------------------------------------------------------------
(* anki.rs on its own: add_cloze_note or update_cloze_note called once,    *)
(* every request of the call answered by AnkiConnect in any way            *)

MAX_BACKOFF == 5

MaxPictures == 2

\* the unit value ()
Unit == <<>>

\* Result<Output, RequestError>: the variant, the value of Ok, the string of the error
Ok(v) == [kind |-> "Ok", value |-> Some(v), error |-> None]

Err(kind, e) == [kind |-> kind, value |-> None, error |-> e]

\* the error strings of AnkiConnect: "duplicate" is its "cannot create note because
\* it is a duplicate", "other" any other
ErrorTexts == {"duplicate", "other"}

\* the bodies of a response: one that read_json cannot read as Response<Output>,
\* or the two Options of Response
Bodies ==
    {[json |-> FALSE, result |-> None, error |-> None]}
    \cup [json : {TRUE}, result : {None, Some(Id42)},
          error : {None} \cup {Some(e) : e \in ErrorTexts}]

\* what AGENT.post(..).send_json(..) can return as Ok: the status and the body
Responses == [success : BOOLEAN, body : Bodies]

\* a decoding that takes a result for Ok whatever the error field holds
DecodedResultFirst(r) ==
    IF r.success
    THEN IF ~r.body.json THEN Err("Deserialisation", None)
         ELSE IF r.body.result # None THEN Ok(r.body.result[1])
         ELSE IF r.body.error # None THEN Err("AnkiConnectError", r.body.error)
         ELSE Err("ErrorNorResult", None)
    ELSE Err("ErrStatus", None)

\* request(), lines 78 to 90: the Result made of the response
Decoded(r) ==
    IF r.success
    THEN IF ~r.body.json THEN Err("Deserialisation", None)
         ELSE IF r.body.result # None /\ r.body.error = None THEN Ok(r.body.result[1])
         ELSE IF r.body.result = None /\ r.body.error # None
              THEN Err("AnkiConnectError", r.body.error)
         ELSE IF r.body.result # None /\ r.body.error # None
              THEN Err("ErrorAndResult", r.body.error)
         ELSE Err("ErrorNorResult", None)
    ELSE Err("ErrStatus", None)

\* Duration::from_millis(100 * 2_u64.pow(i.into())), in ms
Timeout(i) == 100 * 2 ^ i

\* a retry that is allowed once more than the guard of the loop allows
CanRetryOnceMore(i) == i <= MAX_BACKOFF

\* the guard of the retry arm
CanRetry(i) == i < MAX_BACKOFF

\* the first request of the function
FirstRequest(c) ==
    IF c.fn = "add_cloze_note" THEN "CreateDeck"
    ELSE IF c.pictures > 0 THEN "StoreMediaFile" ELSE "UpdateNote"

RequestInit ==
    /\ call \in [fn : {"add_cloze_note", "update_cloze_note"}, pictures : 0..MaxPictures]
    /\ cpc = FirstRequest(call)
    /\ stored = 0 /\ req_i = 0 /\ attempts = 0 /\ slept = <<>> /\ sent = <<>>
    /\ response = None /\ req_ret = None /\ ret = None
    /\ math_in = None /\ math_out = None
    /\ headings = <<>> /\ applied = <<>>
    /\ fs = <<>> /\ NOTES = <<>> /\ overflow_checks = TRUE /\ deck_mapped = TRUE
    /\ pc = <<>> /\ str = <<>> /\ tags = <<>> /\ clozes = <<>> /\ idx = <<>>
    /\ last_read = <<>> /\ out_string = <<>> /\ calls = {} /\ matches = {}
    /\ upc = "idle" /\ uidx = 0 /\ offered = <<>> /\ deleted = <<>> /\ run = 1
    /\ first_run = [fs |-> <<>>, clean |-> FALSE]
    /\ UnseenIdle

RequestFrame ==
    UNCHANGED <<fs, NOTES, overflow_checks, deck_mapped, pc, str, tags, clozes, idx,
                last_read, out_string, calls, matches, upc, uidx, offered, deleted,
                run, first_run, buf, delete_ret, headings, applied, math_vars, call, scan>>

\* one turn of the loop of request(): the body is posted; a response breaks the
\* loop, a transport error is retried after the sleep or returned
Send ==
    /\ cpc \notin {"idle", "returned"}
    /\ response = None /\ req_ret = None
    /\ sent' = Append(sent, cpc)
    /\ attempts' = attempts + 1
    /\ \E r \in {None} \cup {Some(x) : x \in Responses} :
         IF r # None
         THEN /\ response' = r
              /\ UNCHANGED <<req_i, slept, req_ret>>
         ELSE IF CanRetry(req_i)
         THEN /\ slept' = Append(slept, Timeout(req_i))
              /\ req_i' = req_i + 1
              /\ UNCHANGED <<response, req_ret>>
         ELSE /\ req_ret' = Some(Err("AnkiConncectRequest", None))
              /\ UNCHANGED <<req_i, slept, response>>
    /\ UNCHANGED <<cpc, stored, ret>>
    /\ RequestFrame

\* a request() that posts the body again when the status is not a success
DecodeOrResend ==
    /\ response # None /\ req_ret = None
    /\ IF Decoded(response[1]).kind = "ErrStatus" /\ CanRetry(req_i)
       THEN response' = None /\ req_i' = req_i + 1 /\ UNCHANGED req_ret
       ELSE req_ret' = Some(Decoded(response[1])) /\ UNCHANGED <<response, req_i>>
    /\ UNCHANGED <<cpc, stored, attempts, slept, sent, ret>>
    /\ RequestFrame

\* the rest of request(): the response is decoded and returned
Decode ==
    /\ response # None /\ req_ret = None
    /\ req_ret' = Some(Decoded(response[1]))
    /\ UNCHANGED <<cpc, stored, req_i, attempts, slept, sent, response, ret>>
    /\ RequestFrame

\* the function goes on to its next request
NextRequest(action, n) ==
    /\ cpc' = action /\ stored' = n
    /\ req_i' = 0 /\ attempts' = 0 /\ slept' = <<>> /\ response' = None /\ req_ret' = None
    /\ UNCHANGED <<sent, ret>>

\* the function returns
Return(r) ==
    /\ ret' = Some(r) /\ cpc' = "returned"
    /\ UNCHANGED <<stored, req_i, attempts, slept, sent, response, req_ret>>

\* .request()? on a StorePicture: every Err leaves update_cloze_note
MediaFailedUnlessNull(r) == r.kind \notin {"Ok", "ErrorNorResult"}

MediaFailed(r) == r.kind # "Ok"

\* add_cloze_note and ensure_deck_exists, update_cloze_note: what the function
\* does with the Result of its request
Proceed ==
    /\ req_ret # None /\ cpc \notin {"idle", "returned"}
    /\ \E r \in {req_ret[1]} :
         CASE cpc = "CreateDeck" ->
                IF r.kind = "Ok" THEN NextRequest("AddNote", stored) ELSE Return(r)
           [] cpc = "AddNote" -> Return(r)
           [] cpc = "StoreMediaFile" ->
                IF MediaFailed(r) THEN Return(r)
                ELSE IF stored + 1 < call.pictures
                THEN NextRequest("StoreMediaFile", stored + 1)
                ELSE NextRequest("UpdateNote", stored + 1)
           [] cpc = "UpdateNote" ->
                Return(IF r.kind = "ErrorNorResult" THEN Ok(Unit) ELSE r)
    /\ RequestFrame

RequestNext ==
    \/ Send
    \/ Decode
    \/ Proceed

RequestSpec == RequestInit /\ [][RequestNext]_vars

\* every turn of the loop, the decoding and the function's next step are taken
RequestLive == RequestSpec /\ WF_vars(RequestNext)

---------------------------------------------------------------------------
(* The character-scan loop of handle_md in main.rs, on its own. The texts   *)
(* hold no "#" and no " ", so the heading arms of the match are not taken.  *)

ScanChars == {"\n", BT, "=", "$", "[", "a"}

MaxScan == 5

\* a cloze line followed by an identifier comment: 13 digits, or 12 digits and a letter
ScanIdTexts ==
    { <<"=", "=", "a", "=", "=", "\n">> \o NOTE_ID_COMMENT_START \o SubSeq(RunW, 1, 12)
        \o d \o NOTE_ID_COMMENT_END : d \in {<<"3">>, <<"a">>} }

ScanTexts == UNION { [1..n -> ScanChars] : n \in 0..MaxScan } \cup ScanIdTexts

\* how many iterations past the end of the input are followed
MaxPastEnd == 2

\* format_note_id(1000000000000)
mock_note_id ==
    <<"\n">> \o NOTE_ID_COMMENT_START
    \o <<"1", "0", "0", "0", "0", "0", "0", "0", "0", "0", "0", "0", "0">>
    \o NOTE_ID_COMMENT_END

\* file_contents.get(i + offset).cloned()
CharAt(file_contents, i) ==
    IF i + 1 <= Len(file_contents) THEN Some(file_contents[i + 1]) ELSE None

\* the potential id has the format of mock_note_id
HasNoteId(file_contents, i) ==
    /\ i + Len(mock_note_id) <= Len(file_contents)
    /\ SubSeq(file_contents, i + 1, i + 12) = SubSeq(mock_note_id, 1, 12)
    /\ SubSeq(file_contents, i + 26, i + 28) = SubSeq(mock_note_id, 26, 28)

\* a closing "$" or "$$": convert_math(..).await? and the push of its string
Converted(s, conv, skip) ==
    IF conv = "err" THEN [s EXCEPT !.math = "None", !.pc = "err_math"]
    ELSE [s EXCEPT !.math = "None", !.text_empty = @ /\ conv = "empty", !.i = @ + skip]

\* the arm of "\n" and of the end of the input, outside of any special block: the
\* note is sent, and at the end of the input the loop breaks
NoteAndBreak(s, end, added) ==
    LET fc == s.file_contents
        i == s.i
        is_note == s.contains_cloze /\ ~s.text_empty
        has_id == is_note /\ HasNoteId(fc, i)
        index == IF i < Len(fc) THEN i ELSE Len(fc)
        spliced == SubSeq(fc, 1, index) \o mock_note_id \o SubSeq(fc, index + 1, Len(fc))
        after == IF has_id \/ (is_note /\ added) THEN i + Len(mock_note_id) ELSE i
    IN  IF has_id /\ \E k \in 13..25 : ~IsDigit(fc[i + k])
        THEN [s EXCEPT !.pc = "panic"]
        ELSE [s EXCEPT !.file_contents = IF is_note /\ ~has_id /\ added THEN spliced ELSE fc,
                       !.i = IF end THEN after ELSE after + 1,
                       !.text_empty = TRUE,
                       !.contains_cloze = FALSE,
                       !.pc = IF end THEN "break" ELSE "loop"]

\* if chars[0].is_none() { in_cloze = false; math = None; }
Reset(s, end) ==
    [s EXCEPT !.text_empty = FALSE,
              !.in_cloze = IF end THEN FALSE ELSE @,
              !.math = IF end THEN "None" ELSE @,
              !.i = @ + 1]

\* one iteration of the loop: the match on chars and the i += 1 after it
Iteration(s, conv, added) ==
    LET fc == s.file_contents
        c0 == CharAt(fc, s.i)
        c1 == CharAt(fc, s.i + 1)
        c2 == CharAt(fc, s.i + 2)
        end == c0 = None
        no_math == s.math = "None"
    IN  IF end \/ c0 = Some("\n")
        THEN IF s.in_cloze \/ ~no_math \/ s.in_code
             THEN Reset(s, end)
             ELSE NoteAndBreak(s, end, added)
        ELSE IF c0 = Some(BT) /\ c1 = Some(BT) /\ c2 = Some(BT) /\ no_math
        THEN [s EXCEPT !.in_code = ~@, !.text_empty = FALSE, !.i = @ + 1]
        ELSE IF c0 = Some("=") /\ c1 = Some("=") /\ no_math /\ ~s.in_code
        THEN [s EXCEPT !.text_empty = FALSE, !.in_cloze = ~@, !.contains_cloze = TRUE,
                       !.i = @ + 2]
        ELSE IF c0 = Some("$") /\ c1 = Some("$") /\ ~s.in_code
        THEN IF no_math THEN [s EXCEPT !.math = "Display", !.i = @ + 2]
             ELSE Converted(s, conv, IF s.math = "Display" THEN 2 ELSE 1)
        ELSE IF c0 = Some("$") /\ ~s.in_code
        THEN IF no_math THEN [s EXCEPT !.math = "Inline", !.i = @ + 1]
             ELSE IF s.math = "Inline" THEN Converted(s, conv, 1)
             ELSE [s EXCEPT !.i = @ + 1]
        ELSE IF /\ \/ c0 = Some("[") /\ c1 = Some("[")
                   \/ c0 = Some("]") /\ c1 = Some("]")
                /\ no_math /\ ~s.in_code
        THEN [s EXCEPT !.i = @ + 2]
        ELSE [s EXCEPT !.text_empty = @ /\ ~no_math, !.i = @ + 1]

ScanInit ==
    /\ scan \in { [file_contents |-> t, i |-> 0, in_cloze |-> FALSE, math |-> "None",
                   in_code |-> FALSE, contains_cloze |-> FALSE, text_empty |-> TRUE,
                   pc |-> "loop"] : t \in ScanTexts }
    /\ buf = "" /\ delete_ret = None
    /\ MathIdle /\ RequestIdle
    /\ headings = <<>> /\ applied = <<>>
    /\ fs = <<>> /\ NOTES = <<>> /\ overflow_checks = TRUE /\ deck_mapped = TRUE
    /\ pc = <<>> /\ str = <<>> /\ tags = <<>> /\ clozes = <<>> /\ idx = <<>>
    /\ last_read = <<>> /\ out_string = <<>> /\ calls = {} /\ matches = {}
    /\ upc = "idle" /\ uidx = 0 /\ offered = <<>> /\ deleted = <<>> /\ run = 1
    /\ first_run = [fs |-> <<>>, clean |-> FALSE]

\* one turn of the loop; conv is what convert_math returns, added whether
\* add_cloze_note returned Ok
ScanStep ==
    /\ scan.pc = "loop"
    /\ scan.i <= Len(scan.file_contents) + MaxPastEnd
    /\ \E conv \in {"err", "empty", "text"}, added \in BOOLEAN :
         scan' = Iteration(scan, conv, added)
    /\ UNCHANGED <<fs, NOTES, overflow_checks, deck_mapped, pc, str, tags, clozes, idx,
                   last_read, out_string, calls, matches, upc, uidx, offered, deleted,
                   run, first_run, buf, delete_ret, headings, applied, math_vars,
                   request_vars>>

ScanNext == ScanStep

ScanSpec == ScanInit /\ [][ScanNext]_vars

---------------------------------------------------------------------------
(* Properties of the reconciler (under Spec)                               *)

\* the elements of a sequence
Range(q) == {q[k] : k \in 1..Len(q)}

\* the ids of the snapshot that a pending note of the run matched
MatchedIds == {mt.actual[1] : mt \in {x \in matches : x.actual # None}}

\* C1: a pending note whose embedded id is the id of note X of the snapshot while
\* its rendered contents are the Text of another note Y is matched to X, whatever the
\* order of the snapshot: X is the matched id and X is marked seen.
C1_IdMatchFirst ==
    \A mt \in matches : \A x, y \in 1..Len(NOTES) :
        (x # y /\ mt.note_id = Some(NOTES[x].id) /\ mt.contents = NOTES[y].text)
            => (mt.actual = Some(NOTES[x].id) /\ NOTES[x].seen)

\* file f has been folded, and every cloze-line block of it carries the id of a note
\* of the snapshot whose Text is the block's rendered contents
CarriesCorrectIds(f) ==
    /\ pc[f] \in {"loop", "written"}
    /\ clozes[f] # <<>>
    /\ \A k \in 1..Len(clozes[f]) :
         /\ clozes[f][k].note_id # None
         /\ \E n \in 1..Len(NOTES) : /\ NOTES[n].id = clozes[f][k].note_id[1]
                                     /\ NOTES[n].text = clozes[f][k].contents

\* C2 as stated: a file whose blocks all carry their correct identifier comment, with
\* contents equal to the snapshot, issues no create call and no update call.
C2_NoStoreCalls ==
    \A f \in FileIds : CarriesCorrectIds(f) => ~\E c \in calls : c.file = f

\* C2, amended: such a file issues no create call; every block reconciled so far has
\* issued exactly one call, an update carrying the block's contents (which equal the
\* snapshot's Text), whether or not anything changed.
C2_OnlyUpdates ==
    \A f \in FileIds : CarriesCorrectIds(f) =>
        /\ \A c \in calls : c.file = f =>
             /\ c.op = "update"
             /\ c.k \in 1..idx[f]
             /\ c.contents = clozes[f][c.k].contents
        /\ \A k \in 1..idx[f] : \E c \in calls : c.file = f /\ c.k = k

C2_Witness ==
    \E f \in FileIds : /\ CarriesCorrectIds(f)
                       /\ pc[f] = "written"
                       /\ \E c \in calls : c.file = f /\ c.op = "update"

\* C3: the file written by a run whose store calls all succeeded, fed to a second run
\* with the snapshot extended by the notes created, is written byte-identical to its
\* input, whatever ids the store returned on create.
C3_SecondRunSameFile ==
    (run = 2 /\ first_run.clean) =>
        \A f \in FileIds : pc[f] = "written" => fs[f] = first_run.fs[f]

\* the file "A\n==B==\n" alone, an empty snapshot, and a store that returned 42 on
\* the one create call of the run; the file has been written
SpliceExample ==
    /\ run = 1
    /\ Len(fs) = 1
    /\ pc[1] = "written"
    /\ str[1] = <<"A">> \o LF \o ClozeB \o LF
    /\ NOTES = <<>>
    /\ \E c \in calls : c.op = "create" /\ c.final = Some(Id42)

\* C4 as stated: for the file "A\n==B==\n", an empty snapshot and a store that returns
\* 42 on create, the written file is exactly "A\n==B==\n<!--NoteID:42-->".
C4_SpliceExact ==
    SpliceExample =>
        fs[1] = <<"A">> \o LF \o ClozeB \o LF \o NOTE_ID_COMMENT_START \o <<"4", "2">>
                \o NOTE_ID_COMMENT_END

\* C4, amended: the written file is "A\n==B==\n<!--NoteID:42-->\n": the comment goes
\* after the cloze line, before the newline that ended it, and that newline is kept.
C4_SpliceKeepsNewline ==
    SpliceExample =>
        fs[1] = <<"A">> \o LF \o ClozeB \o LF \o NOTE_ID_COMMENT_START \o <<"4", "2">>
                \o NOTE_ID_COMMENT_END \o LF

C4_Witness == SpliceExample

\* where the identifier comment that starts at i (a newline character, the start
\* marker, digits, the end marker) stops, or 0
IdCommentAt(t, i) ==
    TStr(t, FirstStop(t, TStr(t, Or(TStr(t, i, <<"\r">>), TStr(t, i, <<"\n">>)),
                              NOTE_ID_COMMENT_START),
                      LAMBDA k : ~IsDigit(t[k])),
         NOTE_ID_COMMENT_END)

\* a text with its identifier comments deleted
StripIds(t) ==
    LET starts == {i \in 1..Len(t) : IdCommentAt(t, i) # 0}
        keep   == {k \in 1..Len(t) : \A i \in starts : k < i \/ k >= IdCommentAt(t, i)}
    IN  [n \in 1..Cardinality(keep) |->
            t[CHOOSE k \in keep : Cardinality({j \in keep : j <= k}) = n]]

\* C5: the written file is the input with only identifier comments inserted or their
\* digit runs replaced: with the identifier comments deleted, the written file and the
\* text that was read are the same, for every file and every outcome of the store.
C5_ByteExact ==
    \A f \in FileIds : pc[f] = "written" => StripIds(fs[f]) = StripIds(str[f])

\* the store call of block k of file f failed
FailedCall(f, k) == \E c \in calls : c.file = f /\ c.k = k /\ c.final = None

\* C6: when the create or update call of a pending note fails, the step copies the
\* source text up to the note's position and nothing else (no identifier inserted,
\* none altered) and the loop goes on to the next pending note; a file is written
\* only when every pending note of it has been reconciled.
C6_FailureLeavesText ==
    /\ [][\A f \in FileIds :
            (\E c \in calls' \ calls : c.file = f /\ c.final = None) =>
               /\ pc'[f] = "loop"
               /\ idx'[f] = idx[f] + 1
               /\ last_read'[f] = Len(str[f]) - clozes[f][idx[f] + 1].remaining_length
               /\ out_string'[f] = out_string[f]
                                    \o Slice(str[f], last_read[f], last_read'[f])]_vars
    /\ [](\A f \in FileIds : pc[f] = "written" =>
            \A k \in 1..Len(clozes[f]) : \E c \in calls : c.file = f /\ c.k = k)

C6_Witness ==
    \E f \in FileIds : /\ pc[f] = "written"
                       /\ FailedCall(f, 1)
                       /\ \E c \in calls : c.file = f /\ c.k = 2 /\ c.final # None

\* text c ends with an identifier comment (and the newline character after it, if
\* any): the same text with the digit run of that comment replaced by id
WithCommentId(c, id) ==
    LET e  == IF c[Len(c)] \in {"\r", "\n"} THEN Len(c) - 1 ELSE Len(c)
        de == e - Len(NOTE_ID_COMMENT_END)
        ds == CHOOSE j \in 1..de : /\ \A k \in j..de : IsDigit(c[k])
                                    /\ ~IsDigit(c[j - 1])
    IN  SubSeq(c, 1, ds - 1) \o to_string(id) \o SubSeq(c, de + 1, Len(c))

\* C7: when a note is updated and its final id differs from the id embedded in the
\* file, the step leaves the text copied so far with exactly the digit run of the
\* note's own identifier comment replaced by the final id, so that the comment reads
\* <!--NoteID:{final id}-->, for every digit run the grammar accepts.
C7_OwnCommentRewritten ==
    [][\A f \in FileIds :
         \A c \in calls' \ calls :
            (c.file = f /\ c.op = "update" /\ c.note_id # None /\ c.final # None
               /\ c.final # c.note_id) =>
               out_string'[f] =
                   WithCommentId(out_string[f]
                                   \o Slice(str[f], last_read[f],
                                            Len(str[f]) - clozes[f][c.k].remaining_length),
                                 c.final[1])]_vars

\* handle_unseen_notes has returned, with Ok or with an error
RunEnded == upc \in {"done", "err_delete", "err_stdin"}

---------------------------------------------------------------------------
(* Properties of handle_heading (under HeadingSpec)                        *)

\* C9: from the empty stack, after the headings "# A", "### B", "## C" in that
\* order the stack is ["A", "", "C"], and the breadcrumb a cloze-line block gets
\* after the path is " > A > C".
C9_Breadcrumb ==
    applied = << [level |-> 1, contents |-> <<"A">>],
                 [level |-> 3, contents |-> <<"B">>],
                 [level |-> 2, contents |-> <<"C">>] >>
        => /\ headings = << <<"A">>, <<>>, <<"C">> >>
           /\ Breadcrumb(headings) = <<" ", ">", " ", "A", " ", ">", " ", "C">>

\* C10: after handle_heading has applied a heading of level L and text T to a
\* reachable stack, the stack has length exactly L and its entry L - 1 (counted
\* from 0) is T.
C10_StackLength ==
    applied # <<>> =>
        /\ Len(headings) = applied[Len(applied)].level
        /\ headings[applied[Len(applied)].level] = applied[Len(applied)].contents

\* the trail of the headings applied that are still open: a heading is closed by a
\* later heading of the same or a lower level
RECURSIVE OpenTrail(_, _)
OpenTrail(ap, i) ==
    IF i > Len(ap) THEN <<>>
    ELSE (IF \A j \in (i + 1)..Len(ap) : ap[j].level > ap[i].level
          THEN <<" ", ">", " ">> \o ap[i].contents ELSE <<>>)
         \o OpenTrail(ap, i + 1)

\* C11: the breadcrumb of a cloze-line block lists, in increasing level order, the
\* text of the most recent heading of each level that is still open; after "# A"
\* and "## B" it is " > A > B".
C11_NestedBreadcrumb == Breadcrumb(headings) = OpenTrail(applied, 1)

---------------------------------------------------------------------------
(* Properties of the parser and the fold (under ParseSpec)                 *)

\* in the rendered contents c the k-th "{{c" is followed by the number k and "::"
Numbered(c) ==
    LET at == {i \in 1..Len(c) : StartsWith(c, i, <<"{", "{", "c">>)}
    IN  \A i \in at :
            StartsWith(c, i + 3,
                       to_string(U64(Cardinality({j \in at : j <= i}))) \o <<":", ":">>)

\* C12: in every cloze-line block the k-th cloze is rendered as {{ck::...}} with k
\* counted from 1, the count restarting at 1 for every block: every file read gets
\* its blocks rendered (unless a math conversion fails), each numbered 1, 2, 3, ...
C12_ClozeNumbering ==
    \A f \in FileIds :
        pc[f] \notin {"start", "err_io", "err_math"} =>
            /\ pc[f] # "panic"
            /\ \A b \in 1..Len(clozes[f]) : Numbered(clozes[f][b].contents)

\* C13: for every input string (CR, LF and CRLF line endings, unclosed "==", "$",
\* backtick and "[[" openers, the empty string) the File grammar parses and consumes
\* the whole input: the expect on the parse result never panics.
C13_ParserTotal == \A f \in FileIds : pc[f] # "panic_parse"

C13_Witness ==
    \E f \in FileIds : /\ pc[f] = "loop"
                       /\ str[f] \in { <<"=", "=", "B">>, <<"[", "[", "B">>,
                                       <<"$", "\r", "\n">>, <<BT, "B", "\n">> }

\* C19: a math conversion that fails is a failure of its note only: handle_md does
\* not return on it, so the other cloze-line blocks of the file are still reconciled
\* with the store and the file is still written
C19_MathFailurePerNote == \A f \in FileIds : pc[f] # "err_math"

\* a paragraph with a cloze: several lines of plain characters and clozes, none of
\* them blank, no structural character
IsParagraph(s) ==
    /\ s # <<>>
    /\ \A k \in 1..Len(s) : s[k] \in {"=", "A", "B", "\n"}
    /\ s[1] # "\n" /\ s[Len(s)] # "\n"
    /\ \E k \in 1..Len(s) : s[k] = "\n"
    /\ \A k \in 1..(Len(s) - 1) : ~(s[k] = "\n" /\ s[k + 1] = "\n")
    /\ \E i \in 1..Len(s) : Cloze(s, i) # 0

\* C20: a paragraph of several non-blank lines that holds a cloze is parsed as one
\* ClozeLines element that spans its interior newlines, and gives exactly one
\* pending note
C20_ParagraphIsOneBlock ==
    \A f \in FileIds :
        pc[f] = "loop" /\ IsParagraph(str[f]) =>
            /\ ClozeLines(str[f], 1).end = Len(str[f]) + 1
            /\ Len(clozes[f]) = 1

---------------------------------------------------------------------------
(* Properties of the reconcile step (under Spec)                           *)

\* the ids of the notes of the snapshot that the pending note of the lookup mt
\* matches, by id or by contents
Matching(mt) ==
    {Some(n.id) : n \in {x \in Range(NOTES) : \/ mt.note_id = Some(x.id)
                                             \/ x.text = mt.contents}}

\* the calls of a step are one call op for the pending note of mt, sent for one of
\* the ids of targets, with a final id that is absent or one of finals
OneCall(new, mt, op, targets, finals) ==
    /\ Cardinality(new) = 1
    /\ \A c \in new : /\ c.file = mt.file /\ c.k = mt.k /\ c.op = op
                      /\ c.target \in targets
                      /\ c.final \in {None} \cup finals
                      /\ op = "update" => c.final \in {None, c.target}

---------------------------------------------------------------------------
(* Properties of convert_math (under MathSpec)                             *)

HasDoubleBrace(t) == \E k \in 1..(Len(t) - 1) : t[k] = "}" /\ t[k + 1] = "}"

\* C14: for every raw math text and both math kinds, the string convert_math
\* returns holds no "}}", in handle_md.rs and in main.rs alike
C14_NoDoubleBrace ==
    \A v \in {math_out.handle_md, math_out.main} :
        v # None /\ v[1].ok => ~HasDoubleBrace(v[1].str)

---------------------------------------------------------------------------
(* Properties of anki.rs (under RequestSpec and RequestLive)               *)

\* AnkiConnect rejects the note as a duplicate
DuplicateRejection(r) ==
    /\ r.success /\ r.body.json
    /\ r.body.result = None /\ r.body.error = Some("duplicate")

\* add_cloze_note has returned and the response to its AddNote was the rejection
RejectedAsDuplicate ==
    /\ call.fn = "add_cloze_note" /\ ret # None
    /\ sent # <<>> /\ sent[Len(sent)] = "AddNote"
    /\ response # None /\ DuplicateRejection(response[1])

\* C15: when the store rejects AddNote because the note is a duplicate,
\* add_cloze_note goes on to a query by field and returns the first id the query
\* yields: it returns Ok, and a query was sent after the AddNote
C15_DuplicateFallback == RejectedAsDuplicate => ret[1].kind = "Ok"

\* the five outcomes of the claim
FiveOutcomes == {"Ok", "AnkiConnectError", "ErrorAndResult", "ErrorNorResult", "ErrStatus"}

\* the outcome k of the response r is the one its result and error fields and its
\* status call for; with decodes, a success status calls for one of the four
\* outcomes of the fields only if the body was decoded
FieldsOutcome(r, k, decodes) ==
    /\ (k = "Ok") = (r.success /\ decodes
                      /\ r.body.result # None /\ r.body.error = None)
    /\ (k = "AnkiConnectError") = (r.success /\ decodes
                                    /\ r.body.result = None /\ r.body.error # None)
    /\ (k = "ErrorAndResult") = (r.success /\ decodes
                                  /\ r.body.result # None /\ r.body.error # None)
    /\ (k = "ErrorNorResult") = (r.success /\ decodes
                                  /\ r.body.result = None /\ r.body.error = None)
    /\ (k = "ErrStatus") = ~r.success

\* C16: for a response with a success status, request returns Ok(result) exactly when
\* the result is present and the error absent, AnkiConnectError when only the error
\* is present, ErrorAndResult when both are, ErrorNorResult when neither is; a
\* non-success status gives ErrStatus; every response gives one of these five
C16_FiveOutcomes ==
    req_ret # None /\ response # None =>
        /\ req_ret[1].kind \in FiveOutcomes
        /\ FieldsOutcome(response[1], req_ret[1].kind, TRUE)

\* C16, amended: the five outcomes are those of a response whose body, under a
\* success status, read_json could read as {result, error}; a body it cannot read
\* gives a sixth outcome, Deserialisation.  Ok carries the result, the two errors
\* that have an error string carry it.
C16_SixOutcomes ==
    req_ret # None /\ response # None =>
        /\ req_ret[1].kind \in FiveOutcomes \cup {"Deserialisation"}
        /\ FieldsOutcome(response[1], req_ret[1].kind, response[1].body.json)
        /\ (req_ret[1].kind = "Deserialisation")
               = (response[1].success /\ ~response[1].body.json)
        /\ req_ret[1].kind = "Ok" => req_ret[1].value = response[1].body.result
        /\ req_ret[1].kind \in {"AnkiConnectError", "ErrorAndResult"}
               => req_ret[1].error = response[1].body.error

\* a response holding both a result and an error has been decoded
C16_Witness ==
    /\ req_ret # None /\ response # None
    /\ response[1].success /\ response[1].body.json
    /\ response[1].body.result # None /\ response[1].body.error # None
    /\ req_ret[1].kind = "ErrorAndResult"

\* C17: a request whose transport keeps failing is attempted at most
\* MAX_BACKOFF + 1 = 6 times; it sleeps 100 * 2^i ms after failed attempt i for
\* i = 0..4; after the 6th failure it returns AnkiConncectRequest, and only then;
\* the loop always terminates, so the function returns
C17_RetryBound ==
    /\ [](/\ MAX_BACKOFF + 1 = 6
          /\ attempts <= MAX_BACKOFF + 1
          /\ Len(slept) = req_i /\ req_i <= MAX_BACKOFF
          /\ slept = SubSeq(<<100, 200, 400, 800, 1600>>, 1, Len(slept))
          /\ (attempts = MAX_BACKOFF + 1 /\ response = None
                 => req_ret = Some(Err("AnkiConncectRequest", None)))
          /\ (req_ret = Some(Err("AnkiConncectRequest", None))
                 => attempts = MAX_BACKOFF + 1 /\ Len(slept) = MAX_BACKOFF
                    /\ response = None))
    /\ <>(cpc = "returned")

\* the sixth attempt of a request has failed and the function has returned the error
C17_Witness ==
    /\ cpc = "returned" /\ attempts = 6 /\ Len(slept) = 5
    /\ ret = Some(Err("AnkiConncectRequest", None))

---------------------------------------------------------------------------
(* Properties of the identifier comment (under IdSpec)                     *)

\* the value of up to 7 digits
RECURSIVE DecVal(_)
DecVal(d) == IF d = <<>> THEN 0 ELSE DecVal(SubSeq(d, 1, Len(d) - 1)) * 10 + DigitVal(d[Len(d)])

\* the base-10 value of a run of up to 21 digits, in limbs
RunValue(r) ==
    LET p == [k \in 1..21 |-> IF k <= 21 - Len(r) THEN "0" ELSE r[k - (21 - Len(r))]]
    IN  <<DecVal(SubSeq(p, 1, 7)), DecVal(SubSeq(p, 8, 14)), DecVal(SubSeq(p, 15, 21))>>

\* the digit run between the start marker and the end marker of the last line of t
CommentRun(t) ==
    LET i == CHOOSE j \in 1..Len(t) : t[j] \in {"\r", "\n"} /\ t[j + 1] = "<"
    IN  SubSeq(t, i + 1 + Len(NOTE_ID_COMMENT_START), Len(t) - Len(NOTE_ID_COMMENT_END))

\* C21: the comment is recognised only when its digit run has 10 to 13 digits, and
\* the prior id decoded is the base-10 value of the run, computed without overflow
C21_IdDecoding ==
    \A f \in FileIds :
        pc[f] \notin {"start", "err_io"} =>
            /\ pc[f] # "panic" \/ idx[f] > 0
            /\ \A k \in 1..Len(clozes[f]) :
                  clozes[f][k].note_id # None =>
                      /\ Len(CommentRun(str[f])) \in 10..13
                      /\ clozes[f][k].note_id[1] = RunValue(CommentRun(str[f]))

\* C30: an identifier comment of 10 to 13 digits that follows a cloze-line block
\* after LF, CR or CRLF is recognised as the prior id of that block
C30_NewlineVariants ==
    \A f \in FileIds :
        pc[f] = "loop" /\ Len(CommentRun(str[f])) \in 10..13 =>
            /\ Len(clozes[f]) = 1
            /\ clozes[f][1].note_id = Some(RunValue(CommentRun(str[f])))

\* ---------------------------------------------------------------------------
\* C22  Embedded image links
\* ---------------------------------------------------------------------------

\* the text of the link of a LinkTexts file split at its first "|"
LinkParts(t) ==
    LET open == CHOOSE j \in 1..Len(t) : t[j] = "[" /\ t[j + 1] = "["
        close == CHOOSE j \in 1..Len(t) : t[j] = "]" /\ t[j + 1] = "]"
        inner == SubSeq(t, open + 2, close - 1)
        bars == {j \in 1..Len(inner) : inner[j] = "|"}
        bar == IF bars = {} THEN 0 ELSE CHOOSE j \in bars : \A l \in bars : j <= l
    IN  [marker |-> open > 1 /\ t[open - 1] = "!",
         target |-> IF bar = 0 THEN inner ELSE SubSeq(inner, 1, bar - 1),
         rename |-> IF bar = 0 THEN None ELSE Some(SubSeq(inner, bar + 1, Len(inner)))]

\* the link is an embedded image: "!" marker and the target is an existing image file
IsEmbeddedImage(l) ==
    l.marker /\ l.target \in EXISTING_FILES /\ Extension(l.target) \in IMAGE_EXTENSIONS

\* C22: a link renders as the empty string and registers a picture exactly when it
\* carries the "!" marker and its target (the text before any "|") names an existing
\* file with a recognised image extension; otherwise it renders as the rename text if
\* present, else the target, and registers no picture.
C22_EmbeddedImage ==
    \A f \in FileIds : pc[f] = "loop" /\ Len(clozes[f]) = 1 =>
        LET l == LinkParts(str[f])
            shown == IF IsEmbeddedImage(l) THEN <<>>
                     ELSE IF l.rename # None THEN l.rename[1] ELSE l.target
        IN  /\ clozes[f][1].contents =
                  <<"{", "{", "c", "1", ":", ":", "B", "}", "}">> \o shown
                  \o <<"<", "b", "r", ">">> \o path_str(Path(f))
            /\ (clozes[f][1].pictures # <<>>) = IsEmbeddedImage(l)

\* ---------------------------------------------------------------------------
\* C23  Unseen-note finalization
\* ---------------------------------------------------------------------------

\* C23: within a run, a DeleteNotes request for a note is issued only in a turn where the operator
\* answered yes for that note; no leaves the note and goes on, any other input prompts
\* again; a delete that returns Ok or ErrorNorResult goes on to the next note, and any
\* other delete error makes handle_unseen_notes return at once, with nothing deleted
\* or offered after it.
C23_UnseenFinalization ==
    [][/\ deleted' # deleted /\ run' = run =>
            /\ upc = "prompt" /\ buf' = "yes"
            /\ offered[Len(offered)] = NOTES[uidx].id
            /\ deleted' = Append(deleted, NOTES[uidx].id)
       /\ upc = "prompt" /\ buf' = "no" =>
            deleted' = deleted /\ upc' = "scan" /\ uidx' = uidx + 1
       /\ upc = "prompt" /\ buf' = "other" =>
            deleted' = deleted /\ upc' = "prompt" /\ uidx' = uidx
       /\ upc = "prompt" /\ buf' = "yes" /\ delete_ret' \in {Some("ok"), Some("ErrorNorResult")} =>
            upc' = "scan" /\ uidx' = uidx + 1
       /\ upc = "prompt" /\ buf' = "yes" /\ delete_ret' = Some("error") =>
            upc' = "err_delete"
       /\ upc = "err_delete" =>
            upc' = "err_delete" /\ deleted' = deleted /\ offered' = offered]_vars

\* a delete answered with neither result nor error, after which the scan goes on
C23_Witness ==
    /\ upc = "scan" /\ buf = "yes" /\ delete_ret = Some("ErrorNorResult")
    /\ deleted # <<>>

\* ---------------------------------------------------------------------------
\* C24  Media before note
\* ---------------------------------------------------------------------------

\* the requests sent, retries included, are StoreMediaFile requests followed by
\* UpdateNote requests
MediaThenNote(log) ==
    \A j, k \in 1..Len(log) :
        /\ log[k] \in {"StoreMediaFile", "UpdateNote"}
        /\ j < k /\ log[j] = "UpdateNote" => log[k] = "UpdateNote"

\* C24: update_cloze_note sends a StoreMediaFile request for every picture of the
\* note, one picture after the other, each after the one before returned Ok, and the
\* UpdateNote request only after all of them returned Ok; when a media request fails
\* the function returns that error and no UpdateNote request is ever sent.
C24_MediaBeforeNote ==
    /\ [](call.fn = "update_cloze_note" =>
            /\ MediaThenNote(sent)
            /\ stored <= call.pictures
            /\ Cardinality({k \in 1..Len(sent) : sent[k] = "StoreMediaFile"}) >= stored
            /\ (\E k \in 1..Len(sent) : sent[k] = "UpdateNote") => stored = call.pictures
            /\ cpc = "UpdateNote" => stored = call.pictures
            /\ cpc = "returned" /\ stored < call.pictures =>
                  /\ ret[1].kind # "Ok" /\ ret = req_ret
                  /\ \A k \in 1..Len(sent) : sent[k] = "StoreMediaFile")
    /\ [][call.fn = "update_cloze_note" =>
            /\ stored' # stored =>
                  /\ stored' = stored + 1 /\ cpc = "StoreMediaFile"
                  /\ req_ret # None /\ req_ret[1].kind = "Ok"
            /\ cpc = "returned" => sent' = sent]_vars

\* both pictures stored, the note updated, and Ok returned
C24_Witness ==
    /\ call.fn = "update_cloze_note" /\ call.pictures = MaxPictures
    /\ cpc = "returned" /\ ret = Some(Ok(Unit))
    /\ stored = MaxPictures /\ sent[Len(sent)] = "UpdateNote"

\* ---------------------------------------------------------------------------
\* C25  Protocol errors are not retried
\* ---------------------------------------------------------------------------

\* C25: in one call of request() every post but the last met a transport failure that
\* was slept on, and once the transport has returned a response, whatever its status
\* and body, nothing more is posted: the response is decoded and returned.
C25_NoProtocolRetry ==
    /\ [](cpc # "idle" =>
            /\ attempts <= Len(slept) + 1
            /\ response # None => attempts = Len(slept) + 1
            /\ response = None /\ req_ret = None => attempts = Len(slept)
            /\ response # None /\ req_ret # None => req_ret[1] = Decoded(response[1]))
    /\ [][response # None =>
            /\ sent' = sent
            /\ response' # response => response' = None /\ req_ret # None]_vars

\* a response with both a result and an error, returned after one post
C25_Witness ==
    /\ cpc = "returned" /\ call.fn = "update_cloze_note" /\ call.pictures = 0
    /\ ret # None /\ ret[1].kind = "ErrorAndResult"
    /\ Len(sent) = 1 /\ attempts = 1

\* ---------------------------------------------------------------------------
\* C26  Legacy scanner termination
\* ---------------------------------------------------------------------------

\* C26: the scan loop terminates on every input: an iteration that starts past the
\* end of the input, the open blocks having been reset by the iteration at the end of
\* the input, leaves the loop.
C26_ScanTerminates ==
    [][scan.pc = "loop" /\ scan.i > Len(scan.file_contents) => scan'.pc # "loop"]_vars

\* ---------------------------------------------------------------------------
\* C27  Snapshot frame
\* ---------------------------------------------------------------------------

\* C27: within a run, no step adds, removes or reorders the entries of NOTES or changes
\* the id or the fields of an entry; a seen flag only goes from FALSE to TRUE and never
\* back, whether the update of the note succeeded or failed.
C27_SnapshotFrame ==
    [][run' = run =>
          /\ Len(NOTES') = Len(NOTES)
          /\ \A k \in 1..Len(NOTES) :
                /\ NOTES'[k].id = NOTES[k].id
                /\ NOTES'[k].text = NOTES[k].text
                /\ NOTES[k].seen => NOTES'[k].seen]_vars

\* a note marked seen whose update failed, beside a note not seen
C27_Witness ==
    /\ \E k, l \in 1..Len(NOTES) : NOTES[k].seen /\ ~NOTES[l].seen
    /\ \E c \in calls : c.op = "update" /\ c.final = None

\* ---------------------------------------------------------------------------
\* C28  Distinct identities
\* ---------------------------------------------------------------------------

\* C28: within one run, two different cloze-line blocks, of one file or of two, never
\* get the same final id: no note of the snapshot is updated by two blocks and no two
\* blocks carry the same identifier comment.
C28_DistinctIdentities ==
    \A c, d \in calls :
        (c.file # d.file \/ c.k # d.k) /\ c.final # None /\ d.final # None =>
            c.final # d.final

\* ---------------------------------------------------------------------------
\* C29  Deck lookup failure precedes store mutations
\* ---------------------------------------------------------------------------

\* C29: when handle_md has returned the DeckLookup error for a file, no create call
\* and no update call was issued for a note of that file.
C29_DeckLookupFirst ==
    \A f \in FileIds : pc[f] = "err_deck" => \A c \in calls : c.file # f

=============================================================================
